---- MODULE Spec2Model ----
(***************************************************************************)
(* A model of the audit-log component (robertalv/audit-log): the primary   *)
(* log table "auditLogs", the two TableAggregate instances kept beside it  *)
(* (by severity and by action), and the mutations and queries of the       *)
(* component's lib module.                                                 *)
(*                                                                         *)
(* Time.  Date.now() is counted in minutes instead of milliseconds, so     *)
(* that 90 days still fits TLC's integers: every duration of the source    *)
(* that is written in milliseconds is divided by 60 * 1000.                *)
(*                                                                         *)
(* Identifiers.  A document id is the ordinal of the insert that created   *)
(* it.  Convex breaks ties of an index by _creationTime, which grows with  *)
(* every insert, so the order of the ids is the order of _creationTime.    *)
(*                                                                         *)
(* Optional fields.  An optional argument or document field that is left   *)
(* out is a record without that field, as in JavaScript.                   *)
(***************************************************************************)
EXTENDS Integers, Sequences, FiniteSets, TLC

(***************************************************************************)
(* Bounds of the model.                                                    *)
(***************************************************************************)
MaxRecords == 2
MaxTicks == 2
MaxSearchRecords == 11
MaxStatsRecords == 3
MaxQueryRecords == 2
MAX_STATS_SAMPLE_SIZE == 2
MaxBulkRecords == 4
MAX_REPORT_RECORDS == 1
MaxKeys == 2
RandomSteps == 2

(***************************************************************************)
(* Constants of the program.                                               *)
(***************************************************************************)
DefaultOlderThanDays == 90
DefaultBatchSize == 100
SearchFetchFactor == 10
TopCount == 10
DefaultQueryLimit == 50
DefaultWatchLimit == 20
MinutesPerDay == 24 * 60
StartTime == 1

VARIABLES
  auditLogs,            \* the documents of table "auditLogs"
  aggregateBySeverity,  \* the entries of the severity aggregate
  aggregateByAction,    \* the entries of the action aggregate
  now,                  \* Date.now()
  nextId,               \* the ordinal of the next insert
  ticks,                \* how often the clock has advanced
  result,               \* the last completed call: its name, arguments, return value
  pager,                \* a client of search that follows the returned cursors
  backfill,             \* a client of runBackfill that follows the returned cursors
  config,               \* the documents of table "config"
  inflight              \* the mutations that clients have issued: running, or returned

vars == <<auditLogs, aggregateBySeverity, aggregateByAction, now, nextId, ticks, result,
          pager, backfill, config, inflight>>

(***************************************************************************)
(* Generic helpers.                                                        *)
(***************************************************************************)
Undefined == "undefined"

Min(a, b) == IF a < b THEN a ELSE b

Range(s) == {s[i] : i \in DOMAIN s}

\* args.f ?? dflt
Opt(args, f, dflt) == IF f \in DOMAIN args THEN args[f] ELSE dflt

\* doc.f, undefined when the field is absent
Field(doc, f) == IF f \in DOMAIN doc THEN doc[f] ELSE Undefined

\* array.includes(x)
Includes(arr, x) == \E i \in DOMAIN arr : arr[i] = x

\* array.slice(from, to) with 0-based, end-exclusive indexes
Slice(arr, from, to) == SubSeq(arr, from + 1, Min(to, Len(arr)))

\* query.take(n)
Take(arr, n) == SubSeq(arr, 1, Min(n, Len(arr)))

(***************************************************************************)
(* Index "by_timestamp": documents by timestamp, ties by creation order.   *)
(***************************************************************************)
Before(a, b) ==
  \/ a.timestamp < b.timestamp
  \/ a.timestamp = b.timestamp /\ a._id < b._id

RECURSIVE ByTimestampAsc(_)
ByTimestampAsc(docs) ==
  IF docs = {} THEN <<>>
  ELSE LET first == CHOOSE d \in docs : \A e \in docs \ {d} : Before(d, e)
       IN <<first>> \o ByTimestampAsc(docs \ {first})

Reverse(s) == [i \in 1..Len(s) |-> s[Len(s) + 1 - i]]

ByTimestampDesc(docs) == Reverse(ByTimestampAsc(docs))

\* null, comparable with documents
Null == [null |-> TRUE]

\* ctx.db.get(id) on the table db
DbGet(db, id) == IF \E d \in db : d._id = id
                 THEN CHOOSE d \in db : d._id = id
                 ELSE Null

get_AnyDocument(db, id) == DbGet(db, id)

\* the query get: the document when it is an audit log, else null
get(db, id) ==
  LET found == DbGet(db, id)
  IN IF found # Null /\ "action" \in DOMAIN found THEN found ELSE Null

\* ctx.db.insert("auditLogs", {...fields, timestamp})
NewDoc(id, fields, timestamp) ==
  [f \in DOMAIN fields \cup {"_id", "timestamp"} |->
     IF f = "_id" THEN id
     ELSE IF f = "timestamp" THEN timestamp
     ELSE fields[f]]

(***************************************************************************)
(* The aggregate component (@convex-dev/aggregate), by its contract: a bag *)
(* of entries (namespace, key, id); insert adds an entry, delete removes   *)
(* one, insertIfDoesNotExist adds it unless it is there, count counts the  *)
(* entries of a namespace whose key lies within the bounds.                *)
(***************************************************************************)
EmptyAggregate == [x \in {} |-> 0]

Entry(ns, key, id) == [ns |-> ns, key |-> key, id |-> id]

AggHas(agg, e) == e \in DOMAIN agg

AggInsert(agg, e) ==
  IF AggHas(agg, e) THEN [agg EXCEPT ![e] = @ + 1]
  ELSE [x \in DOMAIN agg \cup {e} |-> IF x = e THEN 1 ELSE agg[x]]

AggDelete(agg, e) ==
  IF ~AggHas(agg, e) THEN agg
  ELSE IF agg[e] = 1 THEN [x \in DOMAIN agg \ {e} |-> agg[x]]
  ELSE [agg EXCEPT ![e] = @ - 1]

AggInsertIfDoesNotExist(agg, e) ==
  IF AggHas(agg, e) THEN agg ELSE AggInsert(agg, e)

InBounds(key, bounds) ==
  /\ "lower" \in DOMAIN bounds =>
       IF bounds.lower.inclusive THEN key >= bounds.lower.key
       ELSE key > bounds.lower.key
  /\ "upper" \in DOMAIN bounds =>
       IF bounds.upper.inclusive THEN key <= bounds.upper.key
       ELSE key < bounds.upper.key

RECURSIVE SumOver(_, _)
SumOver(agg, entries) ==
  IF entries = {} THEN 0
  ELSE LET e == CHOOSE x \in entries : TRUE
       IN agg[e] + SumOver(agg, entries \ {e})

AggCount(agg, ns, bounds) ==
  SumOver(agg, {e \in DOMAIN agg : e.ns = ns /\ InBounds(e.key, bounds)})

\* namespace and sortKey of the two TableAggregate instances
SeverityEntry(doc) == Entry(doc.severity, doc.timestamp, doc._id)
ActionEntry(doc) == Entry(doc.action, doc.timestamp, doc._id)

(***************************************************************************)
(* generateDiff.  A JavaScript value is tagged with its kind; an object    *)
(* keeps its keys in insertion order.  JSON.stringify is the text of the   *)
(* value: the kind of a primitive shows in it (1 and "1" differ) and so    *)
(* does the order of an object's keys.                                     *)
(***************************************************************************)
Str(s) == [t |-> "string", v |-> s]
Num(n) == [t |-> "number", v |-> n]
Obj(kv) == [t |-> "object", kv |-> kv]

TypeOf(val) == val.t

\* the truthiness of a value
Truthy(val) ==
  /\ ~(val.t = "string" /\ val.v = "")
  /\ ~(val.t = "number" /\ val.v = 0)

\* the values of the model are objects with primitive members
JSONStringify(val) ==
  IF val.t = "function" THEN <<Undefined, Undefined>>
  ELSE IF val.t = "object"
  THEN <<"{", [i \in DOMAIN val.kv |-> <<val.kv[i][1], val.kv[i][2].t, val.kv[i][2].v>>], "}">>
  ELSE <<val.t, val.v>>

ObjectKeys(obj) == [i \in DOMAIN obj.kv |-> obj.kv[i][1]]

\* the properties every object inherits from Object.prototype under a name
\* that a field may have
ObjectPrototypeKeys ==
  {"constructor", "hasOwnProperty", "isPrototypeOf", "propertyIsEnumerable",
   "toLocaleString", "toString", "valueOf"}

OwnKey(obj, key) == \E i \in DOMAIN obj.kv : obj.kv[i][1] = key

\* key in obj: an own property, or one found along the prototype chain
HasKey(obj, key) == OwnKey(obj, key) \/ key \in ObjectPrototypeKeys

\* obj[key]; an inherited property is a function
Member(obj, key) ==
  IF OwnKey(obj, key) THEN obj.kv[CHOOSE i \in DOMAIN obj.kv : obj.kv[i][1] = key][2]
  ELSE [t |-> "function", v |-> key]

RemovedLine(key, before) == [op |-> "-", key |-> key, text |-> JSONStringify(before)]
AddedLine(key, after) == [op |-> "+", key |-> key, text |-> JSONStringify(after)]
ChangedLine(key, before, after) ==
  [op |-> "~", key |-> key, text |-> JSONStringify(before), to |-> JSONStringify(after)]

\* a diff with a line for every key of after, changed or not
generateDiff_ListsEveryKey(before, after) ==
  IF TypeOf(before) # "object" \/ TypeOf(after) # "object"
  THEN <<[op |-> "Changed from", text |-> JSONStringify(before), to |-> JSONStringify(after)]>>
  ELSE LET keys == ObjectKeys(after)
       IN [i \in DOMAIN keys |->
             IF ~HasKey(before, keys[i]) THEN AddedLine(keys[i], Member(after, keys[i]))
             ELSE ChangedLine(keys[i], Member(before, keys[i]), Member(after, keys[i]))]

\* the text is the sequence of its lines (changes.join("\n"))
generateDiff(before, after) ==
  IF TypeOf(before) # "object" \/ TypeOf(after) # "object"
  THEN <<[op |-> "Changed from", text |-> JSONStringify(before), to |-> JSONStringify(after)]>>
  ELSE LET removedKeys == SelectSeq(ObjectKeys(before), LAMBDA k : ~HasKey(after, k))
           removed == [i \in DOMAIN removedKeys |->
                         RemovedLine(removedKeys[i], Member(before, removedKeys[i]))]
           touchedKeys == SelectSeq(ObjectKeys(after), LAMBDA k :
                            \/ ~HasKey(before, k)
                            \/ JSONStringify(Member(before, k)) # JSONStringify(Member(after, k)))
           touched == [i \in DOMAIN touchedKeys |->
                         IF ~HasKey(before, touchedKeys[i])
                         THEN AddedLine(touchedKeys[i], Member(after, touchedKeys[i]))
                         ELSE ChangedLine(touchedKeys[i], Member(before, touchedKeys[i]),
                                          Member(after, touchedKeys[i]))]
       IN removed \o touched

(***************************************************************************)
(* generateDiff on its own: the values it is applied to, and the           *)
(* application.                                                            *)
(***************************************************************************)
DiffKeys == {"title", "name", "constructor"}

DiffMembers == {Str("A"), Str("1"), Num(1)}

\* the objects of up to MaxKeys members, in every order of their keys, and
\* two values that are no objects
DiffValues ==
  {Obj(kv) : kv \in {s \in UNION {[1..n -> DiffKeys \X DiffMembers] : n \in 0..MaxKeys} :
                       \A i, j \in DOMAIN s : i # j => s[i][1] # s[j][1]}}
  \cup {Str("A"), Num(0)}

InitDiff ==
  /\ auditLogs = {}
  /\ aggregateBySeverity = EmptyAggregate
  /\ aggregateByAction = EmptyAggregate
  /\ now = StartTime
  /\ nextId = 1
  /\ ticks = 0
  /\ result \in {[op |-> "input", before |-> before, after |-> after] :
                   before \in DiffValues, after \in DiffValues}
  /\ pager = [phase |-> "idle"]
  /\ backfill = [phase |-> "idle"]
  /\ config = {}
  /\ inflight = <<>>

NextDiff ==
  /\ result.op = "input"
  /\ result' = [op |-> "generateDiff",
                args |-> [before |-> result.before, after |-> result.after],
                ret |-> generateDiff(result.before, result.after)]
  /\ UNCHANGED <<auditLogs, aggregateBySeverity, aggregateByAction, now, nextId, ticks,
                 pager, backfill, config, inflight>>

(***************************************************************************)
(* The inputs of the calls.                                                *)
(***************************************************************************)
Severities == {"info", "warning", "error", "critical"}

LoginInfo == [action |-> "user.login", severity |-> "info", actorId |-> "u1"]

LoginCritical ==
  [action |-> "user.login", severity |-> "critical", retentionCategory |-> "security"]

UpdateWarning ==
  [action |-> "doc.update", severity |-> "warning", retentionCategory |-> "security",
   resourceType |-> "documents", resourceId |-> "d1", tags |-> <<"pii">>]

EventInputs == {LoginInfo, LoginCritical, UpdateWarning}

ChangeInputs ==
  { [action |-> "doc.update", resourceType |-> "documents", resourceId |-> "d1",
     before |-> Obj(<< <<"title", Str("A")>> >>), after |-> Obj(<< <<"title", Str("B")>> >>),
     generateDiff |-> TRUE] }

BulkInputs ==
  { <<>>, <<LoginCritical, LoginInfo>>, <<LoginInfo, UpdateWarning>> }

CleanupInputs ==
  { [olderThanDays |-> 0],
    [batchSize |-> 1],
    [olderThanDays |-> 0, batchSize |-> 1],
    [olderThanDays |-> 0, preserveSeverity |-> <<"critical">>],
    [olderThanDays |-> 0, preserveSeverity |-> <<"critical">>, batchSize |-> 1],
    [olderThanDays |-> 0, retentionCategory |-> "security"] }

TickSteps == {1, DefaultOlderThanDays * MinutesPerDay}

(***************************************************************************)
(* The clients that page through search and through runBackfill: idle, or  *)
(* following the cursors of a run, with what the run has returned so far   *)
(* and whether the tables have stayed unchanged since the run began.       *)
(***************************************************************************)
Idle == [phase |-> "idle"]

Touched(client) ==
  IF client.phase = "idle" THEN client ELSE [client EXCEPT !.unchanged = FALSE]

(***************************************************************************)
(* The state after the component is installed: empty tables.               *)
(***************************************************************************)
Init ==
  /\ auditLogs = {}
  /\ aggregateBySeverity = EmptyAggregate
  /\ aggregateByAction = EmptyAggregate
  /\ now = StartTime
  /\ nextId = 1
  /\ ticks = 0
  /\ result = [op |-> "init"]
  /\ pager = Idle
  /\ backfill = Idle
  /\ config = {}
  /\ inflight = <<>>

\* the clock advances between calls
Tick(step) ==
  /\ ticks < MaxTicks
  /\ now' = now + step
  /\ ticks' = ticks + 1
  /\ result' = [op |-> "tick"]
  /\ UNCHANGED <<auditLogs, aggregateBySeverity, aggregateByAction, nextId, pager, backfill,
                 config, inflight>>

(***************************************************************************)
(* log, logChange, logBulk.                                                *)
(***************************************************************************)
\* one insert followed by the two aggregate inserts, from the tables
\* (db, sev, act) to the tables after it
InsertLogged_NoActionInsert(tables, doc) ==
  [db |-> tables.db \cup {doc},
   sev |-> AggInsert(tables.sev, SeverityEntry(doc)),
   act |-> tables.act]

InsertLogged(tables, doc) ==
  [db |-> tables.db \cup {doc},
   sev |-> AggInsert(tables.sev, SeverityEntry(doc)),
   act |-> AggInsert(tables.act, ActionEntry(doc))]

Tables == [db |-> auditLogs, sev |-> aggregateBySeverity, act |-> aggregateByAction]

\* the transaction commits; the clients that are following cursors have
\* then seen the tables change under them
Commit(tables) ==
  /\ auditLogs' = tables.db
  /\ aggregateBySeverity' = tables.sev
  /\ aggregateByAction' = tables.act
  /\ pager' = (IF tables = Tables THEN pager ELSE Touched(pager))
  /\ backfill' = (IF tables = Tables THEN backfill ELSE Touched(backfill))
  /\ UNCHANGED <<config, inflight>>

log(args) ==
  /\ LET timestamp == now
         logId == nextId
     IN /\ Commit(InsertLogged(Tables, NewDoc(logId, args, timestamp)))
        /\ result' = [op |-> "log", args |-> args, ret |-> logId]
  /\ nextId' = nextId + 1
  /\ UNCHANGED <<now, ticks>>

\* the fields logChange stores; an undefined value stores no field
ChangeFields(args) ==
  LET diffWanted == /\ Opt(args, "generateDiff", FALSE)
                    /\ "before" \in DOMAIN args /\ Truthy(args.before)
                    /\ "after" \in DOMAIN args /\ Truthy(args.after)
      copied == (DOMAIN args \ {"generateDiff"}) \cup {"severity"}
      stored == IF diffWanted THEN copied \cup {"diff"} ELSE copied
  IN [f \in stored |->
        IF f = "diff" THEN generateDiff(args.before, args.after)
        ELSE IF f = "severity" THEN Opt(args, "severity", "info")
        ELSE args[f]]

logChange(args) ==
  /\ LET timestamp == now
         logId == nextId
     IN /\ Commit(InsertLogged(Tables, NewDoc(logId, ChangeFields(args), timestamp)))
        /\ result' = [op |-> "logChange", args |-> args, ret |-> logId]
  /\ nextId' = nextId + 1
  /\ UNCHANGED <<now, ticks>>

\* a loop that skips an event when a record of this call already holds its action
RECURSIVE BulkLoop_SkipsRepeats(_, _, _, _)
BulkLoop_SkipsRepeats(tables, events, firstId, timestamp) ==
  IF events = <<>> THEN tables
  ELSE IF \E d \in tables.db : d.timestamp = timestamp /\ d.action = Head(events).action
       THEN BulkLoop_SkipsRepeats(tables, Tail(events), firstId + 1, timestamp)
       ELSE BulkLoop_SkipsRepeats(InsertLogged(tables, NewDoc(firstId, Head(events), timestamp)),
                                  Tail(events), firstId + 1, timestamp)

RECURSIVE BulkLoop(_, _, _, _)
BulkLoop(tables, events, firstId, timestamp) ==
  IF events = <<>> THEN tables
  ELSE BulkLoop(InsertLogged(tables, NewDoc(firstId, Head(events), timestamp)),
                Tail(events), firstId + 1, timestamp)

logBulk(events) ==
  /\ LET timestamp == now
         ids == [i \in DOMAIN events |-> nextId + i - 1]
     IN /\ Commit(BulkLoop(Tables, events, nextId, timestamp))
        /\ result' = [op |-> "logBulk", args |-> events, ret |-> ids]
  /\ nextId' = nextId + Len(events)
  /\ UNCHANGED <<now, ticks>>

(***************************************************************************)
(* The argument validators of log.  A call whose arguments the validator   *)
(* does not accept is rejected before the handler runs.                    *)
(***************************************************************************)
vSeverity_AnyString(value) == TRUE

vSeverity(value) == value \in {"info", "warning", "error", "critical"}

\* v.object: the required fields are there, and no field it does not name
vAuditEventInput(args) ==
  /\ "action" \in DOMAIN args
  /\ "severity" \in DOMAIN args
  /\ vSeverity(args.severity)
  /\ DOMAIN args \subseteq {"action", "actorId", "resourceType", "resourceId", "metadata",
                            "severity", "ipAddress", "userAgent", "sessionId", "tags",
                            "retentionCategory"}

\* what a call returns to its caller when it throws
Failure == [error |-> TRUE]

\* the call throws before its handler has run
Reject(op, args) ==
  /\ result' = [op |-> op, args |-> args, ret |-> Failure]
  /\ UNCHANGED <<auditLogs, aggregateBySeverity, aggregateByAction, now, nextId, ticks,
                 pager, backfill, config, inflight>>

\* the mutation log: its arguments are validated, then its handler runs
logMutation(args) ==
  IF vAuditEventInput(args) THEN log(args) ELSE Reject("log", args)

(***************************************************************************)
(* cleanup.                                                                *)
(***************************************************************************)
CutoffTimestamp(args) ==
  now - Opt(args, "olderThanDays", DefaultOlderThanDays) * MinutesPerDay

OldLogs_Lte(db, cutoffTimestamp, batchSize) ==
  Take(ByTimestampAsc({d \in db : d.timestamp <= cutoffTimestamp}), batchSize)

\* .withIndex("by_timestamp", q => q.lt("timestamp", cutoff)).take(batchSize)
OldLogs(db, cutoffTimestamp, batchSize) ==
  Take(ByTimestampAsc({d \in db : d.timestamp < cutoffTimestamp}), batchSize)

CleanupSkips_IgnoresSeverity(args, doc) ==
  /\ "retentionCategory" \in DOMAIN args
  /\ args.retentionCategory # ""
  /\ Field(doc, "retentionCategory") # args.retentionCategory

\* the two "continue" tests of the loop
CleanupSkips(args, doc) ==
  \/ Includes(Opt(args, "preserveSeverity", <<>>), doc.severity)
  \/ /\ "retentionCategory" \in DOMAIN args
     /\ args.retentionCategory # ""
     /\ Field(doc, "retentionCategory") # args.retentionCategory

DeleteLogged_NoActionDelete(tables, doc) ==
  [db |-> tables.db \ {doc},
   sev |-> AggDelete(tables.sev, SeverityEntry(doc)),
   act |-> tables.act]

\* a cleanup that keeps the document and resets its timestamp
DeleteLogged_Archives(tables, doc) ==
  [db |-> (tables.db \ {doc}) \cup {[doc EXCEPT !.timestamp = 0]},
   sev |-> AggDelete(tables.sev, SeverityEntry(doc)),
   act |-> AggDelete(tables.act, ActionEntry(doc))]

\* a cleanup that deletes only the documents the aggregates hold
DeleteLogged_OnlyCounted(tables, doc) ==
  IF AggHas(tables.sev, SeverityEntry(doc)) /\ AggHas(tables.act, ActionEntry(doc))
  THEN [db |-> tables.db \ {doc},
        sev |-> AggDelete(tables.sev, SeverityEntry(doc)),
        act |-> AggDelete(tables.act, ActionEntry(doc))]
  ELSE tables

\* the body of the loop for a document that is not skipped
DeleteLogged(tables, doc) ==
  [db |-> tables.db \ {doc},
   sev |-> AggDelete(tables.sev, SeverityEntry(doc)),
   act |-> AggDelete(tables.act, ActionEntry(doc))]

\* a loop that counts the documents it examines
RECURSIVE CleanupLoop_CountsSkipped(_, _, _, _)
CleanupLoop_CountsSkipped(tables, oldLogs, args, deletedCount) ==
  IF oldLogs = <<>> THEN [tables |-> tables, deletedCount |-> deletedCount]
  ELSE IF CleanupSkips(args, Head(oldLogs))
       THEN CleanupLoop_CountsSkipped(tables, Tail(oldLogs), args, deletedCount + 1)
       ELSE CleanupLoop_CountsSkipped(DeleteLogged(tables, Head(oldLogs)), Tail(oldLogs),
                                      args, deletedCount + 1)

RECURSIVE CleanupLoop(_, _, _, _)
CleanupLoop(tables, oldLogs, args, deletedCount) ==
  IF oldLogs = <<>> THEN [tables |-> tables, deletedCount |-> deletedCount]
  ELSE IF CleanupSkips(args, Head(oldLogs))
       THEN CleanupLoop(tables, Tail(oldLogs), args, deletedCount)
       ELSE CleanupLoop(DeleteLogged(tables, Head(oldLogs)), Tail(oldLogs), args,
                        deletedCount + 1)

cleanup(args) ==
  /\ LET batchSize == Opt(args, "batchSize", DefaultBatchSize)
         oldLogs == OldLogs(auditLogs, CutoffTimestamp(args), batchSize)
         done == CleanupLoop(Tables, oldLogs, args, 0)
     IN /\ Commit(done.tables)
        /\ result' = [op |-> "cleanup", args |-> args, ret |-> done.deletedCount]
  /\ UNCHANGED <<now, nextId, ticks>>

(***************************************************************************)
(* search.  A document id that is null or undefined is 0, which is falsy   *)
(* as null and undefined are.                                              *)
(***************************************************************************)
NoId == 0

\* the filters of the handler, in its order
PassesFilters(filters, doc) ==
  /\ ("fromTimestamp" \in DOMAIN filters /\ filters.fromTimestamp # 0)
       => doc.timestamp >= filters.fromTimestamp
  /\ ("toTimestamp" \in DOMAIN filters /\ filters.toTimestamp # 0)
       => doc.timestamp <= filters.toTimestamp
  /\ ("severity" \in DOMAIN filters /\ Len(filters.severity) > 0)
       => Includes(filters.severity, doc.severity)
  /\ ("actions" \in DOMAIN filters /\ Len(filters.actions) > 0)
       => Includes(filters.actions, doc.action)
  /\ ("resourceTypes" \in DOMAIN filters /\ Len(filters.resourceTypes) > 0)
       => /\ "resourceType" \in DOMAIN doc
          /\ doc.resourceType # ""
          /\ Includes(filters.resourceTypes, doc.resourceType)
  /\ ("actorIds" \in DOMAIN filters /\ Len(filters.actorIds) > 0)
       => /\ "actorId" \in DOMAIN doc
          /\ doc.actorId # ""
          /\ Includes(filters.actorIds, doc.actorId)
  /\ ("tags" \in DOMAIN filters /\ Len(filters.tags) > 0)
       => /\ "tags" \in DOMAIN doc
          /\ \E i \in DOMAIN filters.tags : Includes(doc.tags, filters.tags[i])

FindIndex_NotFoundIsLast(results, cursor) ==
  IF \E i \in DOMAIN results : results[i]._id = cursor
  THEN (CHOOSE i \in DOMAIN results :
          /\ results[i]._id = cursor
          /\ \A j \in 1..(i - 1) : results[j]._id # cursor) - 1
  ELSE Len(results) - 1

\* results.findIndex(log => log._id === cursor), 0-based, -1 when there is none
FindIndex(results, cursor) ==
  IF \E i \in DOMAIN results : results[i]._id = cursor
  THEN (CHOOSE i \in DOMAIN results :
          /\ results[i]._id = cursor
          /\ \A j \in 1..(i - 1) : results[j]._id # cursor) - 1
  ELSE -1

\* .withIndex("by_timestamp").order("desc").take(limit * 10)
SearchFetch(db, limit) == Take(ByTimestampDesc(db), limit * SearchFetchFactor)

\* a search that reports more when the page ends where the results end
SearchResult_HasMoreAtEnd(db, filters, pagination) ==
  LET limit == pagination.limit
      results == SelectSeq(SearchFetch(db, limit), LAMBDA doc : PassesFilters(filters, doc))
      cursorIndex == FindIndex(results, pagination.cursor)
      startIndex == IF "cursor" \in DOMAIN pagination /\ pagination.cursor # NoId
                       /\ cursorIndex # -1
                    THEN cursorIndex + 1 ELSE 0
      paginatedResults == Slice(results, startIndex, startIndex + limit)
  IN [items |-> paginatedResults,
      cursor |-> IF Len(paginatedResults) > 0
                 THEN paginatedResults[Len(paginatedResults)]._id ELSE NoId,
      hasMore |-> startIndex + limit <= Len(results)]

\* the value the handler returns
SearchResult(db, filters, pagination) ==
  LET limit == pagination.limit
      results == SelectSeq(SearchFetch(db, limit), LAMBDA doc : PassesFilters(filters, doc))
      cursorIndex == FindIndex(results, pagination.cursor)
      startIndex == IF "cursor" \in DOMAIN pagination /\ pagination.cursor # NoId
                       /\ cursorIndex # -1
                    THEN cursorIndex + 1 ELSE 0
      paginatedResults == Slice(results, startIndex, startIndex + limit)
  IN [items |-> paginatedResults,
      cursor |-> IF Len(paginatedResults) > 0
                 THEN paginatedResults[Len(paginatedResults)]._id ELSE NoId,
      hasMore |-> startIndex + limit < Len(results)]

Ids(docs) == [i \in DOMAIN docs |-> docs[i]._id]

\* a client calls search; only the record of the call and the client change
search(filters, pagination, client) ==
  /\ result' = [op |-> "search", args |-> [filters |-> filters, pagination |-> pagination],
                ret |-> SearchResult(auditLogs, filters, pagination)]
  /\ pager' = client
  /\ UNCHANGED <<auditLogs, aggregateBySeverity, aggregateByAction, now, nextId, ticks,
                 backfill, config, inflight>>

\* the client asks for the first page
SearchFirst(filters, limit) ==
  LET ret == SearchResult(auditLogs, filters, [limit |-> limit])
  IN search(filters, [limit |-> limit],
            [phase |-> IF ret.hasMore THEN "paging" ELSE "done",
             filters |-> filters, limit |-> limit, cursor |-> ret.cursor,
             seen |-> Ids(ret.items), unchanged |-> TRUE])

\* the client asks for the page after the cursor it was given
SearchNext ==
  /\ pager.phase = "paging"
  /\ LET pagination == [cursor |-> pager.cursor, limit |-> pager.limit]
         ret == SearchResult(auditLogs, pager.filters, pagination)
     IN search(pager.filters, pagination,
               [pager EXCEPT !.phase = IF ret.hasMore THEN "paging" ELSE "done",
                             !.cursor = ret.cursor,
                             !.seen = @ \o Ids(ret.items)])

NoFilters == [f \in {} |-> <<>>]

SearchFilterInputs == {NoFilters, [severity |-> <<"critical">>]}

SearchLimitInputs == {1, 2}

SearchEventInputs == {LoginCritical}

SearchBulkInputs == {<<LoginInfo, LoginInfo, LoginInfo>>}

(***************************************************************************)
(* runBackfill.                                                            *)
(***************************************************************************)
\* ctx.db.query("auditLogs").order("asc"): by creation
ByCreationAsc(docs) ==
  LET ids == {d._id : d \in docs}
      Rank(d) == Cardinality({i \in ids : i <= d._id})
  IN [k \in 1..Cardinality(docs) |-> CHOOSE d \in docs : Rank(d) = k]

\* a query that finds nothing when the cursor's document is gone
BackfillQuery_MissingIsEmpty(db, args) ==
  LET cursorDoc == DbGet(db, Opt(args, "cursor", NoId))
  IN IF "cursor" \in DOMAIN args /\ args.cursor # NoId
     THEN IF cursorDoc # Null
          THEN ByTimestampAsc({d \in db : d.timestamp > cursorDoc.timestamp})
          ELSE <<>>
     ELSE ByCreationAsc(db)

\* the query the handler builds: from the start, or after the timestamp of
\* the cursor's document
BackfillQuery(db, args) ==
  LET cursorDoc == DbGet(db, Opt(args, "cursor", NoId))
  IN IF "cursor" \in DOMAIN args /\ args.cursor # NoId /\ cursorDoc # Null
     THEN ByTimestampAsc({d \in db : d.timestamp > cursorDoc.timestamp})
     ELSE ByCreationAsc(db)

BackfillOne_Insert(tables, doc) ==
  [db |-> tables.db,
   sev |-> AggInsert(tables.sev, SeverityEntry(doc)),
   act |-> AggInsert(tables.act, ActionEntry(doc))]

\* the body of the loop
BackfillOne(tables, doc) ==
  [db |-> tables.db,
   sev |-> AggInsertIfDoesNotExist(tables.sev, SeverityEntry(doc)),
   act |-> AggInsertIfDoesNotExist(tables.act, ActionEntry(doc))]

RECURSIVE BackfillLoop(_, _)
BackfillLoop(tables, toProcess) ==
  IF toProcess = <<>> THEN tables
  ELSE BackfillLoop(BackfillOne(tables, Head(toProcess)), Tail(toProcess))

\* the documents the call processes and whether more remain
BackfillBatch(db, args) ==
  LET batchSize == Opt(args, "batchSize", DefaultBatchSize)
      docs == Take(BackfillQuery(db, args), batchSize + 1)
      hasMore == Len(docs) > batchSize
  IN [toProcess |-> IF hasMore THEN Slice(docs, 0, batchSize) ELSE docs,
      hasMore |-> hasMore]

\* the value the handler returns
BackfillResult(db, args) ==
  LET batch == BackfillBatch(db, args)
      toProcess == batch.toProcess
  IN [processed |-> Len(toProcess),
      cursor |-> IF batch.hasMore /\ Len(toProcess) > 0
                 THEN toProcess[Len(toProcess)]._id ELSE NoId,
      isDone |-> ~batch.hasMore]

\* a client calls runBackfill
runBackfill(args, client) ==
  /\ auditLogs' = auditLogs
  /\ LET done == BackfillLoop(Tables, BackfillBatch(auditLogs, args).toProcess)
     IN /\ aggregateBySeverity' = done.sev
        /\ aggregateByAction' = done.act
        /\ pager' = (IF done = Tables THEN pager ELSE Touched(pager))
  /\ result' = [op |-> "runBackfill", args |-> args, ret |-> BackfillResult(auditLogs, args)]
  /\ backfill' = client
  /\ UNCHANGED <<now, nextId, ticks, config, inflight>>

\* the complete runs the client has made in a row over unchanged tables,
\* counted up to two
CompletedRuns(client) ==
  IF client.phase = "done" /\ client.unchanged THEN client.runs ELSE 0

\* the client starts a run: no cursor
BackfillFirst(batchSize) ==
  LET args == batchSize
      ret == BackfillResult(auditLogs, args)
  IN runBackfill(args,
                 [phase |-> IF ret.isDone THEN "done" ELSE "running",
                  cursor |-> ret.cursor, unchanged |-> TRUE,
                  runs |-> IF ret.isDone THEN Min(CompletedRuns(backfill) + 1, 2)
                           ELSE CompletedRuns(backfill),
                  sevAtStart |-> aggregateBySeverity, actAtStart |-> aggregateByAction])

\* the client passes the cursor it was given
BackfillNext(batchSize) ==
  /\ backfill.phase = "running"
  /\ LET args == [f \in DOMAIN batchSize \cup {"cursor"} |->
                    IF f = "cursor" THEN backfill.cursor ELSE batchSize[f]]
         ret == BackfillResult(auditLogs, args)
     IN runBackfill(args,
                    [backfill EXCEPT !.phase = IF ret.isDone THEN "done" ELSE "running",
                                     !.cursor = ret.cursor,
                                     !.runs = IF ret.isDone THEN Min(@ + 1, 2) ELSE @])

\* the batchSize argument of a call: left out, or 1
BackfillInputs == {NoFilters, [batchSize |-> 1]}

BackfillEventInputs == {LoginInfo, UpdateWarning}

BackfillBulkInputs == {<<LoginInfo, UpdateWarning>>}

LegacyCleanupInputs == {[olderThanDays |-> 0]}

(***************************************************************************)
(* The lib module as it was before the aggregates were added: log, logBulk *)
(* and cleanup write the table only.  A deployment that is upgraded holds  *)
(* records these calls wrote, and one that is rolled back runs them beside *)
(* aggregates that already hold entries.                                   *)
(***************************************************************************)
CommitTable(db) ==
  Commit([db |-> db, sev |-> aggregateBySeverity, act |-> aggregateByAction])

legacyLog(args) ==
  /\ LET timestamp == now
         logId == nextId
     IN /\ CommitTable(auditLogs \cup {NewDoc(logId, args, timestamp)})
        /\ result' = [op |-> "legacyLog", args |-> args, ret |-> logId]
  /\ nextId' = nextId + 1
  /\ UNCHANGED <<now, ticks>>

legacyLogBulk(events) ==
  /\ LET timestamp == now
         ids == [i \in DOMAIN events |-> nextId + i - 1]
     IN /\ CommitTable(auditLogs \cup
                          {NewDoc(ids[i], events[i], timestamp) : i \in DOMAIN events})
        /\ result' = [op |-> "legacyLogBulk", args |-> events, ret |-> ids]
  /\ nextId' = nextId + Len(events)
  /\ UNCHANGED <<now, ticks>>

legacyCleanup(args) ==
  /\ LET batchSize == Opt(args, "batchSize", DefaultBatchSize)
         oldLogs == OldLogs(auditLogs, CutoffTimestamp(args), batchSize)
         deleted == {d \in Range(oldLogs) : ~CleanupSkips(args, d)}
     IN /\ CommitTable(auditLogs \ deleted)
        /\ result' = [op |-> "legacyCleanup", args |-> args, ret |-> Cardinality(deleted)]
  /\ UNCHANGED <<now, nextId, ticks>>

\* detectAnomalies as it was: the events of the pattern's action that the
\* by_action_timestamp index holds from windowStart on, collected
legacyEvents(db, pattern, at) ==
  {d \in db : d.action = pattern.action /\ d.timestamp >= at - pattern.windowMinutes}

legacyAnomalies(db, patterns, at) ==
  LET scanned == [i \in DOMAIN patterns |->
                    [action |-> patterns[i].action,
                     count |-> Cardinality(legacyEvents(db, patterns[i], at)),
                     threshold |-> patterns[i].threshold,
                     windowMinutes |-> patterns[i].windowMinutes,
                     detectedAt |-> at]]
  IN SelectSeq(scanned, LAMBDA a : a.count >= a.threshold)

(***************************************************************************)
(* The client class AuditLog.  Math.random() is one of the RandomSteps     *)
(* values k / RandomSteps below 1, and a samplingRate is counted in the    *)
(* same unit, so that 0 is the rate 0 and RandomSteps the rate 1.          *)
(***************************************************************************)
\* redactPIIFromObject on an object with primitive members, whose keys are
\* in lower case
redactPIIFromObject(piiFields, obj) ==
  IF TypeOf(obj) # "object" THEN obj
  ELSE Obj([i \in DOMAIN obj.kv |->
              IF obj.kv[i][1] \in piiFields
              THEN <<obj.kv[i][1], Str("[REDACTED]")>>
              ELSE obj.kv[i]])

redactPII(options, event) ==
  LET piiFields == Range(Opt(options, "piiFields", <<>>))
  IN IF "metadata" \notin DOMAIN event \/ piiFields = {} THEN event
     ELSE [event EXCEPT !.metadata = redactPIIFromObject(piiFields, @)]

\* the test that guards the random draw
Sampling(options) ==
  /\ Opt(options, "samplingEnabled", FALSE)
  /\ "samplingRate" \in DOMAIN options
  /\ options.samplingRate # 0

\* AuditLog.log: the event is dropped, or sanitized and passed to the
\* mutation log of the component
AuditLog_log(options, event, random) ==
  IF Sampling(options) /\ random > options.samplingRate
  THEN /\ result' = [op |-> "AuditLog.log", options |-> options, args |-> event,
                     random |-> random, ret |-> ""]
       /\ UNCHANGED <<auditLogs, aggregateBySeverity, aggregateByAction, now, nextId, ticks,
                      pager, backfill, config, inflight>>
  ELSE /\ Commit(InsertLogged(Tables, NewDoc(nextId, redactPII(options, event), now)))
       /\ result' = [op |-> "AuditLog.log", options |-> options, args |-> event,
                     random |-> random, ret |-> nextId]
       /\ nextId' = nextId + 1
       /\ UNCHANGED <<now, ticks>>

(***************************************************************************)
(* The queries.  A query reads the tables and returns; only the record of  *)
(* the call changes.                                                       *)
(***************************************************************************)
\* a query that stores a record of the read
Query_LogsTheRead(op, args, ret) ==
  /\ result' = [op |-> op, args |-> args, ret |-> ret]
  /\ Commit(InsertLogged(Tables, NewDoc(nextId, [action |-> op, severity |-> "info"], now)))
  /\ nextId' = nextId + 1
  /\ UNCHANGED <<now, ticks>>

Query(op, args, ret) ==
  /\ result' = [op |-> op, args |-> args, ret |-> ret]
  /\ UNCHANGED <<auditLogs, aggregateBySeverity, aggregateByAction, now, nextId, ticks,
                 pager, backfill, config, inflight>>

(***************************************************************************)
(* detectAnomalies.                                                        *)
(***************************************************************************)
\* the count the handler asks of the action aggregate for one pattern
PatternCount_Exclusive(act, pattern, at) ==
  AggCount(act, pattern.action,
           [lower |-> [key |-> at - pattern.windowMinutes, inclusive |-> FALSE]])

PatternCount(act, pattern, at) ==
  AggCount(act, pattern.action,
           [lower |-> [key |-> at - pattern.windowMinutes, inclusive |-> TRUE]])

\* a loop that pushes an anomaly only above the threshold
Anomalies_AboveThreshold(act, patterns, at) ==
  LET counted == [i \in DOMAIN patterns |->
                    [action |-> patterns[i].action,
                     count |-> PatternCount(act, patterns[i], at),
                     threshold |-> patterns[i].threshold,
                     windowMinutes |-> patterns[i].windowMinutes,
                     detectedAt |-> at]]
  IN SelectSeq(counted, LAMBDA a : a.count > a.threshold)

\* the loop over the patterns: an anomaly is pushed when count >= threshold
Anomalies(act, patterns, at) ==
  LET counted == [i \in DOMAIN patterns |->
                    [action |-> patterns[i].action,
                     count |-> PatternCount(act, patterns[i], at),
                     threshold |-> patterns[i].threshold,
                     windowMinutes |-> patterns[i].windowMinutes,
                     detectedAt |-> at]]
  IN SelectSeq(counted, LAMBDA a : a.count >= a.threshold)

detectAnomalies(patterns) ==
  Query("detectAnomalies", patterns, Anomalies(aggregateByAction, patterns, now))

LoginPattern(threshold, windowMinutes) ==
  [action |-> "user.login", threshold |-> threshold, windowMinutes |-> windowMinutes]

UpdatePattern(threshold, windowMinutes) ==
  [action |-> "doc.update", threshold |-> threshold, windowMinutes |-> windowMinutes]

PatternInputs ==
  { <<>>,
    <<LoginPattern(2, 0)>>,
    <<UpdatePattern(1, 0), LoginPattern(2, 1)>>,
    <<LoginPattern(3, 1), UpdatePattern(0, 0)>> }

(***************************************************************************)
(* getStats.  MAX_STATS_SAMPLE_SIZE is 1000 in the source; the model keeps *)
(* the cap and scales it down so that a log can hold more records than it. *)
(***************************************************************************)
\* the keys of a Record<string, number> in insertion order
RECURSIVE FirstSeen(_)
FirstSeen(keys) ==
  IF keys = <<>> THEN <<>>
  ELSE LET rest == FirstSeen(SubSeq(keys, 1, Len(keys) - 1))
           last == keys[Len(keys)]
       IN IF Includes(rest, last) THEN rest ELSE Append(rest, last)

\* Object.entries of the counts the loop builds
Tally(keys) ==
  LET seen == FirstSeen(keys)
  IN [i \in DOMAIN seen |->
        [key |-> seen[i], count |-> Cardinality({j \in DOMAIN keys : keys[j] = seen[i]})]]

\* entries.sort((a, b) => b[1] - a[1]): by descending count, stable
RECURSIVE SortByCountDesc(_)
SortByCountDesc(entries) ==
  IF entries = <<>> THEN <<>>
  ELSE LET best == CHOOSE i \in DOMAIN entries :
                     /\ \A j \in DOMAIN entries : entries[j].count <= entries[i].count
                     /\ \A j \in 1..(i - 1) : entries[j].count < entries[i].count
       IN <<entries[best]>> \o
          SortByCountDesc(SubSeq(entries, 1, best - 1) \o
                          SubSeq(entries, best + 1, Len(entries)))

\* the bounds object of the aggregate counts
StatsBounds(args, fromTimestamp) ==
  IF "toTimestamp" \in DOMAIN args /\ args.toTimestamp # 0
  THEN [lower |-> [key |-> fromTimestamp, inclusive |-> TRUE],
        upper |-> [key |-> args.toTimestamp, inclusive |-> TRUE]]
  ELSE [lower |-> [key |-> fromTimestamp, inclusive |-> TRUE]]

\* .withIndex("by_timestamp", q => q.gte(...)).order("desc").take(MAX_STATS_SAMPLE_SIZE)
StatsSample(db, fromTimestamp) ==
  Take(ByTimestampDesc({d \in db : d.timestamp >= fromTimestamp}), MAX_STATS_SAMPLE_SIZE)

\* the four counts of the severity aggregate
BySeverity(sev, bounds) == [s \in Severities |-> AggCount(sev, s, bounds)]

\* the value the handler returns
StatsResult(db, sev, args, at) ==
  LET fromTimestamp == Opt(args, "fromTimestamp", at - MinutesPerDay)
      bySeverity == BySeverity(sev, StatsBounds(args, fromTimestamp))
      recentLogs == StatsSample(db, fromTimestamp)
      logs == IF "toTimestamp" \in DOMAIN args /\ args.toTimestamp # 0
              THEN SelectSeq(recentLogs, LAMBDA d : d.timestamp <= args.toTimestamp)
              ELSE recentLogs
      withActor == SelectSeq(logs, LAMBDA d : "actorId" \in DOMAIN d /\ d.actorId # "")
      actionCounts == Tally([i \in DOMAIN logs |-> logs[i].action])
      actorCounts == Tally([i \in DOMAIN withActor |-> withActor[i].actorId])
      topActions == Slice(SortByCountDesc(actionCounts), 0, TopCount)
      topActors == Slice(SortByCountDesc(actorCounts), 0, TopCount)
  IN [totalCount |-> bySeverity["info"] + bySeverity["warning"] + bySeverity["error"]
                       + bySeverity["critical"],
      bySeverity |-> bySeverity,
      topActions |-> [i \in DOMAIN topActions |->
                        [action |-> topActions[i].key, count |-> topActions[i].count]],
      topActors |-> [i \in DOMAIN topActors |->
                       [actorId |-> topActors[i].key, count |-> topActors[i].count]]]

getStats(args) ==
  Query("getStats", args, StatsResult(auditLogs, aggregateBySeverity, args, now))

StatsInputs ==
  { NoFilters,
    [fromTimestamp |-> 1],
    [fromTimestamp |-> 2],
    [fromTimestamp |-> 1, toTimestamp |-> 1],
    [toTimestamp |-> 2],
    [fromTimestamp |-> 0, toTimestamp |-> 0] }

StatsEventInputs == {LoginInfo, LoginCritical, UpdateWarning}

StatsBulkInputs == {<<LoginInfo, LoginInfo>>}

StatsCleanupInputs == {[olderThanDays |-> 0]}

(***************************************************************************)
(* queryByResource, queryByActor, queryBySeverity, queryByAction.  Each    *)
(* index ends in the timestamp, ties by creation order; "desc" reads it    *)
(* backwards.                                                              *)
(***************************************************************************)
\* array.sort((a, b) => b.timestamp - a.timestamp): stable
RECURSIVE SortByTimestampDesc(_)
SortByTimestampDesc(logs) ==
  IF logs = <<>> THEN <<>>
  ELSE LET best == CHOOSE i \in DOMAIN logs :
                     /\ \A j \in DOMAIN logs : logs[j].timestamp <= logs[i].timestamp
                     /\ \A j \in 1..(i - 1) : logs[j].timestamp < logs[i].timestamp
       IN <<logs[best]>> \o
          SortByTimestampDesc(SubSeq(logs, 1, best - 1) \o SubSeq(logs, best + 1, Len(logs)))

\* if (args.fromTimestamp) results = results.filter(log => log.timestamp >= ...)
FilterFrom(args, results) ==
  IF "fromTimestamp" \in DOMAIN args /\ args.fromTimestamp # 0
  THEN SelectSeq(results, LAMBDA d : d.timestamp >= args.fromTimestamp)
  ELSE results

ByResource_NoFrom(db, args) ==
  Take(ByTimestampDesc({d \in db :
         /\ Field(d, "resourceType") = args.resourceType
         /\ Field(d, "resourceId") = args.resourceId}),
       Opt(args, "limit", DefaultQueryLimit))

\* the value queryByResource returns
ByResource(db, args) ==
  Take(ByTimestampDesc({d \in db :
         /\ Field(d, "resourceType") = args.resourceType
         /\ Field(d, "resourceId") = args.resourceId
         /\ ("fromTimestamp" \in DOMAIN args /\ args.fromTimestamp # 0)
              => d.timestamp >= args.fromTimestamp}),
       Opt(args, "limit", DefaultQueryLimit))

queryByResource(args) == Query("queryByResource", args, ByResource(auditLogs, args))

\* the value queryByActor returns
ByActor(db, args) ==
  LET taken == Take(ByTimestampDesc({d \in db : Field(d, "actorId") = args.actorId}),
                    Opt(args, "limit", DefaultQueryLimit))
      recent == FilterFrom(args, taken)
  IN IF "actions" \in DOMAIN args /\ Len(args.actions) > 0
     THEN SelectSeq(recent, LAMBDA d : Includes(args.actions, d.action))
     ELSE recent

queryByActor(args) == Query("queryByActor", args, ByActor(auditLogs, args))

\* the loop of queryBySeverity: the results of each severity, appended
RECURSIVE SeverityLoop(_, _, _)
SeverityLoop(db, severity, limit) ==
  IF severity = <<>> THEN <<>>
  ELSE Take(ByTimestampDesc({d \in db : d.severity = Head(severity)}), limit)
       \o SeverityLoop(db, Tail(severity), limit)

\* the value queryBySeverity returns
BySeverityQuery(db, args) ==
  LET limit == Opt(args, "limit", DefaultQueryLimit)
      allResults == SeverityLoop(db, args.severity, limit)
  IN Slice(SortByTimestampDesc(FilterFrom(args, allResults)), 0, limit)

queryBySeverity(args) == Query("queryBySeverity", args, BySeverityQuery(auditLogs, args))

\* the value queryByAction returns
ByAction(db, args) ==
  FilterFrom(args, Take(ByTimestampDesc({d \in db : d.action = args.action}),
                        Opt(args, "limit", DefaultQueryLimit)))

queryByAction(args) == Query("queryByAction", args, ByAction(auditLogs, args))

(***************************************************************************)
(* getConfig, updateConfig, and the query get over the documents of both   *)
(* tables.                                                                 *)
(***************************************************************************)
\* ctx.db.query("config").first()
FirstConfig(cfg) ==
  IF cfg = {} THEN Null
  ELSE CHOOSE c \in cfg : \A other \in cfg : c._id <= other._id

\* a patch that resets the fields the call leaves out to their defaults
PatchConfig_ResetsOthers(existing, args) ==
  [f \in DOMAIN existing \cup DOMAIN args |->
     IF f \in DOMAIN args THEN args[f]
     ELSE IF f = "samplingEnabled" THEN FALSE
     ELSE IF f = "defaultRetentionDays" THEN 90
     ELSE existing[f]]

\* ctx.db.patch(existing._id, {the fields of args that are not undefined})
PatchConfig(existing, args) ==
  [f \in DOMAIN existing \cup DOMAIN args |->
     IF f \in DOMAIN args THEN args[f] ELSE existing[f]]

\* ctx.db.insert("config", {the fields of args, or their defaults})
NewConfig(id, args) ==
  LET fields == {"_id", "defaultRetentionDays", "criticalRetentionDays",
                 "piiFieldsToRedact", "samplingEnabled", "samplingRate"}
                  \cup ({"customRetention"} \cap DOMAIN args)
  IN [f \in fields |->
        IF f = "_id" THEN id
        ELSE IF f = "defaultRetentionDays" THEN Opt(args, f, 90)
        ELSE IF f = "criticalRetentionDays" THEN Opt(args, f, 365)
        ELSE IF f = "piiFieldsToRedact" THEN Opt(args, f, <<>>)
        ELSE IF f = "samplingEnabled" THEN Opt(args, f, FALSE)
        ELSE IF f = "samplingRate" THEN Opt(args, f, 1)
        ELSE args[f]]

updateConfig(args) ==
  LET existing == FirstConfig(config)
  IN /\ IF existing # Null
        THEN /\ config' = (config \ {existing}) \cup {PatchConfig(existing, args)}
             /\ result' = [op |-> "updateConfig", args |-> args, ret |-> existing._id]
             /\ nextId' = nextId
        ELSE /\ config' = {NewConfig(nextId, args)}
             /\ result' = [op |-> "updateConfig", args |-> args, ret |-> nextId]
             /\ nextId' = nextId + 1
     /\ UNCHANGED <<auditLogs, aggregateBySeverity, aggregateByAction, now, ticks, pager,
                    backfill, inflight>>

\* a handler that inserts whatever the table holds
ConfigPlan_AlwaysInserts(cfg, args, id) ==
  [config |-> cfg \cup {NewConfig(id, args)}, ret |-> id, inserted |-> 1]

\* the table config after the handler of updateConfig has run on the table
\* cfg, the id it returns, and the number of documents it has inserted
ConfigPlan(cfg, args, id) ==
  LET existing == FirstConfig(cfg)
  IN IF existing # Null
     THEN [config |-> (cfg \ {existing}) \cup {PatchConfig(existing, args)},
           ret |-> existing._id, inserted |-> 0]
     ELSE [config |-> {NewConfig(id, args)}, ret |-> id, inserted |-> 1]

\* the query get, called with the id
getById(id) == Query("get", [id |-> id], get(auditLogs \cup config, id))

\* the query getConfig
getConfig == Query("getConfig", NoFilters, FirstConfig(config))

(***************************************************************************)
(* watchCritical.                                                          *)
(***************************************************************************)
\* the value watchCritical returns
WatchCritical(db, args) ==
  LET severityLevels == Opt(args, "severity", <<"error", "critical">>)
      limit == Opt(args, "limit", DefaultWatchLimit)
      allResults == SeverityLoop(db, severityLevels, limit)
  IN Slice(SortByTimestampDesc(allResults), 0, limit)

watchCritical(args) == Query("watchCritical", args, WatchCritical(auditLogs, args))

(***************************************************************************)
(* generateReport.  The text of the report is kept structured: the JSON    *)
(* text is the value it is the text of, the CSV text its header and rows.  *)
(***************************************************************************)
DefaultIncludeFields ==
  <<"timestamp", "action", "actorId", "resourceType", "resourceId", "severity">>

\* the object the map builds of one log: the included fields that the log has
Filtered(doc, includeFields) ==
  LET kept == SelectSeq(includeFields, LAMBDA field : field \in DOMAIN doc)
  IN [i \in DOMAIN kept |-> <<kept[i], doc[kept[i]]>>]

\* filtered[field], undefined when the object has no such key
FilteredValue(filtered, field) ==
  IF \E i \in DOMAIN filtered : filtered[i][1] = field
  THEN filtered[CHOOSE i \in DOMAIN filtered : filtered[i][1] = field][2]
  ELSE Undefined

\* one cell of a CSV row: empty for a missing value, a string in double
\* quotes, String(value) otherwise (the timestamp is the one number)
CsvCell(filtered, field) ==
  IF ~\E i \in DOMAIN filtered : filtered[i][1] = field THEN ""
  ELSE IF field = "timestamp" THEN FilteredValue(filtered, field)
  ELSE <<"\"", FilteredValue(filtered, field), "\"">>

Csv(filteredLogs, includeFields) ==
  <<includeFields>> \o
  [i \in DOMAIN filteredLogs |->
     [j \in DOMAIN includeFields |-> CsvCell(filteredLogs[i], includeFields[j])]]

\* String(log[groupBy] ?? "unknown")
GroupKey(filtered, groupBy) ==
  IF \E i \in DOMAIN filtered : filtered[i][1] = groupBy
  THEN FilteredValue(filtered, groupBy)
  ELSE "unknown"

\* the object grouped: its keys in the order they were first set
Grouped(filteredLogs, groupBy) ==
  LET keys == FirstSeen([i \in DOMAIN filteredLogs |-> GroupKey(filteredLogs[i], groupBy)])
  IN [k \in DOMAIN keys |->
        <<keys[k], SelectSeq(filteredLogs, LAMBDA l : GroupKey(l, groupBy) = keys[k])>>]

\* a report that reads no record beyond the limit
ReportResult_NoExtra(db, args, at) ==
  LET limit == Min(Opt(args, "maxRecords", MAX_REPORT_RECORDS), MAX_REPORT_RECORDS)
      logs == Take(ByTimestampAsc({d \in db : /\ d.timestamp >= args.startDate
                                              /\ d.timestamp <= args.endDate}),
                   limit)
      truncated == Len(logs) > limit
      logsToProcess == IF truncated THEN Slice(logs, 0, limit) ELSE logs
      includeFields == Opt(args, "includeFields", DefaultIncludeFields)
      filteredLogs == [i \in DOMAIN logsToProcess |->
                         Filtered(logsToProcess[i], includeFields)]
      data == IF args.format = "csv" THEN Csv(filteredLogs, includeFields)
              ELSE IF /\ "groupBy" \in DOMAIN args
                      /\ args.groupBy # ""
                      /\ Includes(includeFields, args.groupBy)
                   THEN Grouped(filteredLogs, args.groupBy)
                   ELSE filteredLogs
  IN [format |-> args.format, data |-> data, generatedAt |-> at,
      recordCount |-> Len(filteredLogs), truncated |-> truncated]

\* the value generateReport returns
ReportResult(db, args, at) ==
  LET limit == Min(Opt(args, "maxRecords", MAX_REPORT_RECORDS), MAX_REPORT_RECORDS)
      logs == Take(ByTimestampAsc({d \in db : /\ d.timestamp >= args.startDate
                                              /\ d.timestamp <= args.endDate}),
                   limit + 1)
      truncated == Len(logs) > limit
      logsToProcess == IF truncated THEN Slice(logs, 0, limit) ELSE logs
      includeFields == Opt(args, "includeFields", DefaultIncludeFields)
      filteredLogs == [i \in DOMAIN logsToProcess |->
                         Filtered(logsToProcess[i], includeFields)]
      data == IF args.format = "csv" THEN Csv(filteredLogs, includeFields)
              ELSE IF /\ "groupBy" \in DOMAIN args
                      /\ args.groupBy # ""
                      /\ Includes(includeFields, args.groupBy)
                   THEN Grouped(filteredLogs, args.groupBy)
                   ELSE filteredLogs
  IN [format |-> args.format, data |-> data, generatedAt |-> at,
      recordCount |-> Len(filteredLogs), truncated |-> truncated]

generateReport(args) == Query("generateReport", args, ReportResult(auditLogs, args, now))

(***************************************************************************)
(* The inputs of the queries.                                              *)
(***************************************************************************)
LogoutInfo == [action |-> "user.logout", severity |-> "info", actorId |-> "u1"]

QueryEventInputs == {LoginInfo, LogoutInfo, UpdateWarning}

QueryCleanupInputs == {[olderThanDays |-> 0]}

ConfigInputs == {NoFilters, [samplingEnabled |-> TRUE]}

\* the arguments of log: accepted, and lacking a field or with a severity
\* that is none of the four
ValidateInputs ==
  { LoginInfo, UpdateWarning,
    [severity |-> "info"],
    [action |-> "user.login", actorId |-> "u1"],
    [action |-> "user.login", severity |-> "debug"],
    NoFilters }

WatchInputs == {NoFilters, [severity |-> <<"info", "warning">>, limit |-> 1]}

ReportInputs ==
  { [startDate |-> 0, endDate |-> 3, format |-> "json"],
    [startDate |-> 1, endDate |-> 1, format |-> "csv", maxRecords |-> 2,
     includeFields |-> <<"action", "timestamp", "actorId">>],
    [startDate |-> 0, endDate |-> 3, format |-> "json", groupBy |-> "action",
     maxRecords |-> 2],
    [startDate |-> 0, endDate |-> 3, format |-> "json", maxRecords |-> 0] }

\* an id that no insert has returned
UnknownId == 99

GetInputs == (1..(MaxRecords + 1)) \cup {UnknownId}

GetEventInputs == {LoginInfo, UpdateWarning}

GetBulkInputs == {<<LoginInfo, LogoutInfo>>, <<LoginInfo, LoginInfo>>}

LimitInputs == {NoFilters, [limit |-> 1]}

FromInputs == {NoFilters, [fromTimestamp |-> 2]}

\* the records a, b merged
Merge(a, b) == [f \in DOMAIN a \cup DOMAIN b |-> IF f \in DOMAIN a THEN a[f] ELSE b[f]]

ResourceInputs ==
  {Merge([resourceType |-> "documents", resourceId |-> "d1"], Merge(l, f)) :
     l \in LimitInputs, f \in FromInputs}

ActorInputs ==
  {Merge([actorId |-> "u1"], Merge(l, a)) :
     l \in LimitInputs, a \in {NoFilters, [actions |-> <<"user.login">>]}}
  \cup {[actorId |-> "u1", fromTimestamp |-> 2]}

SeverityInputs ==
  {Merge([severity |-> sev], Merge(l, f)) :
     sev \in {<<"info">>, <<"warning", "info">>}, l \in LimitInputs, f \in FromInputs}
  \cup {[severity |-> <<"info", "info">>]}

ActionInputs ==
  {Merge([action |-> "user.login"], Merge(l, f)) : l \in LimitInputs, f \in FromInputs}

\* the arguments of logChange: with and without the flag, with and without
\* each snapshot, and with snapshots that are objects, strings and numbers
ChangeCallInputs ==
  { Merge([action |-> "doc.update", resourceType |-> "documents", resourceId |-> "d1"],
          snapshots) :
      snapshots \in
        { [before |-> Obj(<< <<"title", Str("A")>> >>),
           after |-> Obj(<< <<"title", Str("B")>> >>), generateDiff |-> TRUE],
          [before |-> Obj(<< <<"title", Str("A")>> >>),
           after |-> Obj(<< <<"title", Str("B")>> >>), generateDiff |-> FALSE],
          [before |-> Obj(<< <<"title", Str("A")>> >>),
           after |-> Obj(<< <<"title", Str("B")>> >>)],
          [before |-> Obj(<< <<"title", Str("A")>> >>), generateDiff |-> TRUE],
          [after |-> Obj(<< <<"title", Str("B")>> >>), generateDiff |-> TRUE],
          [before |-> Obj(<<>>), after |-> Obj(<< <<"title", Str("B")>> >>),
           generateDiff |-> TRUE],
          [before |-> Str("A"), after |-> Str("B"), generateDiff |-> TRUE],
          [before |-> Num(0), after |-> Num(1), generateDiff |-> TRUE] } }

QueryFilterInputs ==
  { NoFilters,
    [severity |-> <<"warning", "critical">>, tags |-> <<"pii", "gdpr">>],
    [actions |-> <<"user.login">>, actorIds |-> <<"u1">>, fromTimestamp |-> 2],
    [resourceTypes |-> <<"documents">>, toTimestamp |-> 1],
    [severity |-> <<>>, toTimestamp |-> 0] }

QueryPaginationInputs ==
  {[limit |-> 1]} \cup {[limit |-> 1, cursor |-> c] : c \in {1, 2, UnknownId}}

(***************************************************************************)
(* The mutations as transactions that run concurrently.  A handler is the  *)
(* sequence of its writes, in the order of its awaits; a running mutation  *)
(* applies them one at a time to its own view of the tables, and commits   *)
(* the view when the tables are still the ones it started from; otherwise  *)
(* it is run again on the new tables (the platform's optimistic            *)
(* concurrency control).  What the source decides is which writes belong   *)
(* to one mutation, and in which order they are issued.                    *)
(***************************************************************************)
\* the clients that issue mutations at the same time, one call each
Writers == {"w1", "w2", "w3"}

Write(kind, doc) == [kind |-> kind, doc |-> doc]

\* one write of a handler, applied to the tables (db, sev, act)
ApplyWrite(tables, w) ==
  CASE w.kind = "db.insert" -> [tables EXCEPT !.db = @ \cup {w.doc}]
    [] w.kind = "db.delete" -> [tables EXCEPT !.db = @ \ {w.doc}]
    [] w.kind = "severity.insert" ->
         [tables EXCEPT !.sev = AggInsert(@, SeverityEntry(w.doc))]
    [] w.kind = "action.insert" ->
         [tables EXCEPT !.act = AggInsert(@, ActionEntry(w.doc))]
    [] w.kind = "severity.delete" ->
         [tables EXCEPT !.sev = AggDelete(@, SeverityEntry(w.doc))]
    [] w.kind = "action.delete" ->
         [tables EXCEPT !.act = AggDelete(@, ActionEntry(w.doc))]
    [] w.kind = "severity.insertIfDoesNotExist" ->
         [tables EXCEPT !.sev = AggInsertIfDoesNotExist(@, SeverityEntry(w.doc))]
    [] w.kind = "action.insertIfDoesNotExist" ->
         [tables EXCEPT !.act = AggInsertIfDoesNotExist(@, ActionEntry(w.doc))]

\* the writes of log and logChange for the document they store
LogWrites(doc) ==
  <<Write("db.insert", doc), Write("severity.insert", doc), Write("action.insert", doc)>>

\* the writes of one turn of cleanup's loop for a document it deletes
DeleteWrites(doc) ==
  <<Write("severity.delete", doc), Write("action.delete", doc), Write("db.delete", doc)>>

\* the writes of one turn of runBackfill's loop
BackfillWrites(doc) ==
  <<Write("severity.insertIfDoesNotExist", doc),
    Write("action.insertIfDoesNotExist", doc)>>

RECURSIVE Flatten(_)
Flatten(seqs) == IF seqs = <<>> THEN <<>> ELSE Head(seqs) \o Flatten(Tail(seqs))

\* the writes a handler issues and the value it returns, when it runs on
\* the tables db at time at and its inserts get the ids from firstId on
Plan(op, args, db, at, firstId) ==
  CASE op = "log" ->
         [writes |-> LogWrites(NewDoc(firstId, args, at)), ret |-> firstId]
    [] op = "logChange" ->
         [writes |-> LogWrites(NewDoc(firstId, ChangeFields(args), at)), ret |-> firstId]
    [] op = "logBulk" ->
         [writes |-> Flatten([i \in DOMAIN args.events |->
                                LogWrites(NewDoc(firstId + i - 1, args.events[i], at))]),
          ret |-> [i \in DOMAIN args.events |-> firstId + i - 1]]
    [] op = "cleanup" ->
         LET oldLogs == OldLogs(db, at - Opt(args, "olderThanDays", DefaultOlderThanDays)
                                           * MinutesPerDay,
                                Opt(args, "batchSize", DefaultBatchSize))
             deleted == SelectSeq(oldLogs, LAMBDA d : ~CleanupSkips(args, d))
         IN [writes |-> Flatten([i \in DOMAIN deleted |-> DeleteWrites(deleted[i])]),
             ret |-> Len(deleted)]
    [] op = "runBackfill" ->
         LET toProcess == BackfillBatch(db, args).toProcess
         IN [writes |-> Flatten([i \in DOMAIN toProcess |-> BackfillWrites(toProcess[i])]),
             ret |-> BackfillResult(db, args)]

\* a caller that looped over log: the three writes of every event are a
\* mutation of their own
HandlerTransactions_PerEvent(writes) ==
  [i \in 1..(Len(writes) \div 3) |-> SubSeq(writes, 3 * i - 2, 3 * i)]

\* an action that issued every write as a mutation of its own
HandlerTransactions_PerWrite(writes) == [i \in DOMAIN writes |-> <<writes[i]>>]

\* the transactions the writes of a handler are committed in: the handler
\* is one mutation, so all of them together
HandlerTransactions(writes) == <<writes>>

\* the number of ids a call draws
IdsDrawn(op, args) ==
  IF op \in {"log", "logChange"} THEN 1 ELSE IF op = "logBulk" THEN Len(args.events) ELSE 0

\* the mutation w, (re)started on the committed tables with done of its
\* transactions behind it
Started(op, args, firstId, done) ==
  LET plan == Plan(op, args, auditLogs, now, firstId)
      groups == HandlerTransactions(plan.writes)
  IN [op |-> op, args |-> args, firstId |-> firstId, done |-> done, ret |-> plan.ret,
      base |-> Tables, tables |-> Tables,
      todo |-> IF done < Len(groups) THEN groups[done + 1] ELSE <<>>,
      last |-> done + 1 >= Len(groups)]

SetInflight(w, txn) ==
  inflight' = [x \in DOMAIN inflight \cup {w} |-> IF x = w THEN txn ELSE inflight[x]]

\* a client issues the call: the mutation starts
Begin(w, op, args) ==
  /\ w \notin DOMAIN inflight
  /\ nextId + IdsDrawn(op, args) - 1 <= MaxRecords
  /\ SetInflight(w, Started(op, args, nextId, 0))
  /\ nextId' = nextId + IdsDrawn(op, args)
  /\ UNCHANGED <<auditLogs, aggregateBySeverity, aggregateByAction, now, ticks, result,
                 pager, backfill, config>>

\* the same, in a deployment whose log is to hold up to maxRecords records
BeginWithin(w, op, args, maxRecords) ==
  /\ w \notin DOMAIN inflight
  /\ nextId + IdsDrawn(op, args) - 1 <= maxRecords
  /\ SetInflight(w, Started(op, args, nextId, 0))
  /\ nextId' = nextId + IdsDrawn(op, args)
  /\ UNCHANGED <<auditLogs, aggregateBySeverity, aggregateByAction, now, ticks, result,
                 pager, backfill, config>>

\* the mutation issues its next write, on its own view
Step(w) ==
  /\ w \in DOMAIN inflight
  /\ inflight[w].op # "returned"
  /\ inflight[w].todo # <<>>
  /\ SetInflight(w, [inflight[w] EXCEPT !.tables = ApplyWrite(@, Head(inflight[w].todo)),
                                        !.todo = Tail(@)])
  /\ UNCHANGED <<auditLogs, aggregateBySeverity, aggregateByAction, now, nextId, ticks,
                 result, pager, backfill, config>>

\* the tables have changed under the mutation: it is run again
Rerun(w) ==
  /\ w \in DOMAIN inflight
  /\ inflight[w].op # "returned"
  /\ inflight[w].base # Tables
  /\ SetInflight(w, Started(inflight[w].op, inflight[w].args, inflight[w].firstId,
                            inflight[w].done))
  /\ UNCHANGED <<auditLogs, aggregateBySeverity, aggregateByAction, now, nextId, ticks,
                 result, pager, backfill, config>>

\* the mutation has issued its writes and the tables are those it read:
\* its view becomes the tables, and the call returns
CommitMutation(w) ==
  /\ w \in DOMAIN inflight
  /\ inflight[w].op # "returned"
  /\ inflight[w].todo = <<>>
  /\ inflight[w].base = Tables
  /\ auditLogs' = inflight[w].tables.db
  /\ aggregateBySeverity' = inflight[w].tables.sev
  /\ aggregateByAction' = inflight[w].tables.act
  /\ IF inflight[w].last
     THEN /\ SetInflight(w, [op |-> "returned"])
          /\ result' = [op |-> inflight[w].op, args |-> inflight[w].args,
                        ret |-> inflight[w].ret]
     ELSE /\ SetInflight(w, [inflight[w] EXCEPT
                               !.done = @ + 1,
                               !.base = inflight[w].tables,
                               !.todo = HandlerTransactions(
                                          Plan(inflight[w].op, inflight[w].args,
                                               inflight[w].base.db, now,
                                               inflight[w].firstId).writes)[inflight[w].done + 2],
                               !.last = inflight[w].done + 2 >=
                                          Len(HandlerTransactions(
                                                Plan(inflight[w].op, inflight[w].args,
                                                     inflight[w].base.db, now,
                                                     inflight[w].firstId).writes))])
          /\ result' = result
  /\ UNCHANGED <<now, nextId, ticks, pager, backfill, config>>

\* the mutation throws while it runs: its view is dropped, nothing of it is
\* committed, and the call returns the error
Fail(w) ==
  /\ w \in DOMAIN inflight
  /\ inflight[w].op # "returned"
  /\ SetInflight(w, [op |-> "returned", failed |-> inflight[w].op])
  /\ result' = [op |-> inflight[w].op, args |-> inflight[w].args, ret |-> Failure]
  /\ UNCHANGED <<auditLogs, aggregateBySeverity, aggregateByAction, now, nextId, ticks,
                 pager, backfill, config>>

ConcurrentCalls ==
  { [op |-> "log", args |-> LoginInfo],
    [op |-> "logChange", args |-> CHOOSE a \in ChangeInputs : TRUE],
    [op |-> "logBulk", args |-> [events |-> <<LoginCritical, LoginInfo>>]],
    [op |-> "cleanup", args |-> [olderThanDays |-> 0]],
    [op |-> "runBackfill", args |-> NoFilters] }

ConcurrentReads == { [fromTimestamp |-> 0] }

\* the clients that issue the calls of SpecBulk, one call each
BulkWriters == {"w1", "w2"}

\* updateConfig as a transaction: it starts on the table config as it is,
\* is run again when the table has changed under it, and commits otherwise
BeginConfig(w, args) ==
  /\ w \notin DOMAIN inflight
  /\ SetInflight(w, [op |-> "updateConfig", args |-> args, base |-> config])
  /\ UNCHANGED <<auditLogs, aggregateBySeverity, aggregateByAction, now, nextId, ticks,
                 result, pager, backfill, config>>

RerunConfig(w) ==
  /\ w \in DOMAIN inflight
  /\ inflight[w].op = "updateConfig"
  /\ inflight[w].base # config
  /\ SetInflight(w, [inflight[w] EXCEPT !.base = config])
  /\ UNCHANGED <<auditLogs, aggregateBySeverity, aggregateByAction, now, nextId, ticks,
                 result, pager, backfill, config>>

CommitConfig(w) ==
  /\ w \in DOMAIN inflight
  /\ inflight[w].op = "updateConfig"
  /\ inflight[w].base = config
  /\ LET plan == ConfigPlan(inflight[w].base, inflight[w].args, nextId)
     IN /\ config' = plan.config
        /\ nextId' = nextId + plan.inserted
        /\ result' = [op |-> "updateConfig", args |-> inflight[w].args, ret |-> plan.ret]
  /\ SetInflight(w, [op |-> "returned"])
  /\ UNCHANGED <<auditLogs, aggregateBySeverity, aggregateByAction, now, ticks, pager,
                 backfill>>

ConfigUpdateInputs ==
  { NoFilters,
    [samplingEnabled |-> TRUE, samplingRate |-> 0],
    [defaultRetentionDays |-> 30],
    [customRetention |-> <<[category |-> "security", retentionDays |-> 7]>>,
     piiFieldsToRedact |-> <<"email">>] }

BulkCalls ==
  { [op |-> "logBulk", args |-> [events |-> <<LoginCritical, LoginInfo>>]],
    [op |-> "logBulk", args |-> [events |-> <<LoginInfo, LoginInfo>>]],
    [op |-> "log", args |-> LoginInfo],
    [op |-> "cleanup", args |-> [olderThanDays |-> 0]] }

(***************************************************************************)
(* The specifications.  Spec: the calls that write, and the clock.         *)
(* SpecSearch: a log of up to MaxSearchRecords records and a client that   *)
(* pages through search.  SpecBackfill: a deployment that runs both         *)
(* versions of the lib module, and a client that drives runBackfill.       *)
(***************************************************************************)
Next ==
  \/ \E step \in TickSteps : Tick(step)
  \/ \E args \in EventInputs : nextId <= MaxRecords /\ log(args)
  \/ \E args \in ChangeInputs : nextId <= MaxRecords /\ logChange(args)
  \/ \E events \in BulkInputs : nextId + Len(events) - 1 <= MaxRecords /\ logBulk(events)
  \/ \E args \in CleanupInputs : cleanup(args)

Spec == Init /\ [][Next]_vars

NextSearch ==
  \/ \E args \in SearchEventInputs : nextId <= MaxSearchRecords /\ log(args)
  \/ \E events \in SearchBulkInputs :
       nextId + Len(events) - 1 <= MaxSearchRecords /\ logBulk(events)
  \/ \E filters \in SearchFilterInputs, limit \in SearchLimitInputs :
       SearchFirst(filters, limit)
  \/ SearchNext

SpecSearch == Init /\ [][NextSearch]_vars

NextBackfill ==
  \/ Tick(1)
  \/ \E args \in BackfillEventInputs : nextId <= MaxRecords /\ legacyLog(args)
  \/ \E events \in BackfillBulkInputs :
       nextId + Len(events) - 1 <= MaxRecords /\ legacyLogBulk(events)
  \/ \E args \in LegacyCleanupInputs : legacyCleanup(args)
  \/ \E args \in BackfillEventInputs : nextId <= MaxRecords /\ log(args)
  \/ \E batchSize \in BackfillInputs : BackfillFirst(batchSize)
  \/ \E batchSize \in BackfillInputs : BackfillNext(batchSize)

SpecBackfill == Init /\ [][NextBackfill]_vars

NextStats ==
  \/ Tick(1)
  \/ \E args \in StatsEventInputs : nextId <= MaxStatsRecords /\ log(args)
  \/ \E events \in StatsBulkInputs :
       nextId + Len(events) - 1 <= MaxStatsRecords /\ logBulk(events)
  \/ \E args \in StatsCleanupInputs : cleanup(args)
  \/ \E patterns \in PatternInputs : detectAnomalies(patterns)
  \/ \E args \in StatsInputs : getStats(args)

SpecStats == Init /\ [][NextStats]_vars

NextQuery ==
  \/ Tick(1)
  \/ \E args \in QueryEventInputs : nextId <= MaxQueryRecords /\ log(args)
  \/ \E args \in QueryCleanupInputs : cleanup(args)
  \/ \E args \in ResourceInputs : queryByResource(args)
  \/ \E args \in ActorInputs : queryByActor(args)
  \/ \E args \in SeverityInputs : queryBySeverity(args)
  \/ \E args \in ActionInputs : queryByAction(args)
  \/ \E filters \in QueryFilterInputs, pagination \in QueryPaginationInputs :
       search(filters, pagination, pager)

SpecQuery == Init /\ [][NextQuery]_vars

NextGet ==
  \/ Tick(1)
  \/ \E args \in GetEventInputs : nextId <= MaxRecords /\ log(args)
  \/ \E args \in ChangeInputs : nextId <= MaxRecords /\ logChange(args)
  \/ \E events \in GetBulkInputs : nextId + Len(events) - 1 <= MaxRecords /\ logBulk(events)
  \/ \E args \in QueryCleanupInputs : cleanup(args)
  \/ \E args \in ConfigInputs : updateConfig(args)
  \/ \E id \in GetInputs : getById(id)

SpecGet == Init /\ [][NextGet]_vars

NextConcurrent ==
  \/ ticks = 0 /\ Tick(1)
  \/ \E w \in Writers, call \in ConcurrentCalls : Begin(w, call.op, call.args)
  \/ \E w \in Writers : Step(w)
  \/ \E w \in Writers : Rerun(w)
  \/ \E w \in Writers : CommitMutation(w)
  \/ \E args \in ConcurrentReads : getStats(args)

SpecConcurrent == Init /\ [][NextConcurrent]_vars

\* SpecBulk: logBulk issued beside log and cleanup, by calls that may fail
NextBulk ==
  \/ ticks = 0 /\ Tick(1)
  \/ \E w \in BulkWriters, call \in BulkCalls :
       BeginWithin(w, call.op, call.args, MaxBulkRecords)
  \/ \E w \in BulkWriters : Step(w)
  \/ \E w \in BulkWriters : Rerun(w)
  \/ \E w \in BulkWriters : CommitMutation(w)
  \/ \E w \in BulkWriters : Fail(w)
  \/ \E args \in ConcurrentReads : getStats(args)

SpecBulk == Init /\ [][NextBulk]_vars

\* SpecReads: every query of the lib module, on a log and a configuration
\* that log, cleanup and updateConfig have written
NextReads ==
  \/ Tick(1)
  \/ \E args \in QueryEventInputs : nextId <= MaxQueryRecords /\ log(args)
  \/ \E args \in QueryCleanupInputs : cleanup(args)
  \/ \E args \in ConfigInputs : nextId <= MaxQueryRecords + 1 /\ updateConfig(args)
  \/ \E id \in 1..MaxQueryRecords : getById(id)
  \/ \E filters \in {NoFilters, [severity |-> <<"warning">>]} :
       search(filters, [limit |-> 1], pager)
  \/ queryByResource([resourceType |-> "documents", resourceId |-> "d1"])
  \/ queryByActor([actorId |-> "u1", actions |-> <<"user.login">>])
  \/ queryBySeverity([severity |-> <<"warning", "info">>, limit |-> 1])
  \/ queryByAction([action |-> "user.login", fromTimestamp |-> 2])
  \/ \E args \in WatchInputs : watchCritical(args)
  \/ \E args \in {NoFilters, [fromTimestamp |-> 1, toTimestamp |-> 2]} : getStats(args)
  \/ detectAnomalies(<<LoginPattern(1, 1)>>)
  \/ \E args \in ReportInputs : generateReport(args)
  \/ getConfig

SpecReads == Init /\ [][NextReads]_vars

\* SpecConfig: updateConfig issued by clients at the same time, and getConfig
NextConfig ==
  \/ \E w \in Writers, args \in ConfigUpdateInputs : BeginConfig(w, args)
  \/ \E w \in Writers : RerunConfig(w)
  \/ \E w \in Writers : CommitConfig(w)
  \/ getConfig

SpecConfig == Init /\ [][NextConfig]_vars

\* SpecDiff: generateDiff applied to a pair of values
SpecDiff == InitDiff /\ [][NextDiff]_vars

\* SpecChange: logChange called with and without snapshots
NextChange ==
  \/ Tick(1)
  \/ \E args \in ChangeCallInputs : nextId <= MaxRecords /\ logChange(args)
  \/ \E args \in QueryCleanupInputs : cleanup(args)

SpecChange == Init /\ [][NextChange]_vars

\* SpecValidate: log called with arguments its validator accepts or rejects
NextValidate ==
  \/ Tick(1)
  \/ \E args \in ValidateInputs : nextId <= MaxRecords /\ logMutation(args)
  \/ \E args \in QueryCleanupInputs : cleanup(args)

SpecValidate == Init /\ [][NextValidate]_vars

\* SpecRetention: cleanup by retention category, on a log of records of two
\* categories and of none
NextRetention ==
  \/ Tick(1)
  \/ \E args \in {LoginInfo, LoginCritical,
                   [action |-> "invoice.paid", severity |-> "info",
                    retentionCategory |-> "billing"]} :
       nextId <= MaxRecords + 1 /\ log(args)
  \/ \E args \in {[olderThanDays |-> 0, retentionCategory |-> "security"],
                   [olderThanDays |-> 0, retentionCategory |-> "billing", batchSize |-> 1],
                   [olderThanDays |-> 0, retentionCategory |-> ""]} :
       cleanup(args)

SpecRetention == Init /\ [][NextRetention]_vars

\* SpecLegacy: cleanup after an upgrade.  The records with an id below
\* MaxRecords were written before the aggregates existed, the later ones
\* after.
NextLegacy ==
  \/ Tick(1)
  \/ \E args \in {LoginInfo, LoginCritical, UpdateWarning} :
       nextId < MaxRecords /\ legacyLog(args)
  \/ \E args \in {LoginInfo, LoginCritical, UpdateWarning} :
       nextId >= MaxRecords /\ nextId <= MaxRecords + 1 /\ log(args)
  \/ \E args \in {[olderThanDays |-> 0], [olderThanDays |-> 0, batchSize |-> 1],
                   [olderThanDays |-> 0, preserveSeverity |-> <<"critical">>]} :
       cleanup(args)

SpecLegacy == Init /\ [][NextLegacy]_vars

\* SpecCursor: runBackfill called with the cursor of the previous batch
\* after a cleanup, or with an id that no record has
NextCursor ==
  \/ Tick(1)
  \/ \E args \in {LoginInfo, UpdateWarning} : nextId <= MaxRecords /\ legacyLog(args)
  \/ cleanup([olderThanDays |-> 0])
  \/ \E batchSize \in BackfillInputs : BackfillFirst(batchSize)
  \/ \E batchSize \in BackfillInputs : BackfillNext(batchSize)
  \/ \E batchSize \in BackfillInputs :
       runBackfill(Merge(batchSize, [cursor |-> UnknownId]), Idle)

SpecCursor == Init /\ [][NextCursor]_vars

\* SpecPaging: a client pages through search while log and cleanup write
NextPaging ==
  \/ Tick(1)
  \/ nextId <= MaxRecords + 1 /\ log(LoginInfo)
  \/ cleanup([olderThanDays |-> 0])
  \/ SearchFirst(NoFilters, 1)
  \/ SearchNext

SpecPaging == Init /\ [][NextPaging]_vars

\* SpecAnomaly: detectAnomalies on a log that log, logChange, logBulk and
\* cleanup have written
NextAnomaly ==
  \/ Tick(1)
  \/ \E args \in {LoginInfo, UpdateWarning} : nextId <= MaxStatsRecords /\ log(args)
  \/ \E args \in ChangeInputs : nextId <= MaxStatsRecords /\ logChange(args)
  \/ nextId + 1 <= MaxStatsRecords /\ logBulk(<<LoginInfo, LoginInfo>>)
  \/ \E args \in {[olderThanDays |-> 0], [olderThanDays |-> 0, batchSize |-> 1]} :
       cleanup(args)
  \/ \E patterns \in PatternInputs : detectAnomalies(patterns)

SpecAnomaly == Init /\ [][NextAnomaly]_vars

\* SpecSampling: events logged through the client class, under every
\* sampling option and every draw
NextSampling ==
  \/ Tick(1)
  \/ \E enabled \in {NoFilters, [samplingEnabled |-> TRUE], [samplingEnabled |-> FALSE]},
        rate \in {NoFilters} \cup {[samplingRate |-> r] : r \in 0..RandomSteps},
        pii \in {NoFilters, [piiFields |-> <<"email">>]},
        event \in {LoginInfo,
                   [action |-> "user.created", severity |-> "info",
                    metadata |-> Obj(<< <<"email", Str("a@b.c")>>, <<"role", Str("user")>> >>)]},
        random \in 0..(RandomSteps - 1) :
       /\ nextId <= MaxRecords
       /\ AuditLog_log(Merge(Merge(enabled, rate), pii), event, random)

SpecSampling == Init /\ [][NextSampling]_vars

(***************************************************************************)
(* Notions shared by the properties.                                       *)
(***************************************************************************)
\* the action strings the inputs use, and one that no record carries
Actions == {"user.login", "doc.update", "user.logout"}

\* the keys that occur in a set of documents and in two aggregates, and the clock
KeysOf(db, sev, act) ==
  {d.timestamp : d \in db} \cup {e.key : e \in DOMAIN sev \cup DOMAIN act} \cup {now}

\* the time windows over a set of keys: a lower bound, an optional upper
\* bound, each inclusive or exclusive
WindowsOver(keys) ==
  {[lower |-> [key |-> k, inclusive |-> i]] : k \in keys, i \in BOOLEAN}
  \cup UNION {
      {[lower |-> [key |-> k1, inclusive |-> i1], upper |-> [key |-> k2, inclusive |-> i2]] :
         k2 \in {k \in keys : k >= k1}, i1 \in BOOLEAN, i2 \in BOOLEAN} : k1 \in keys}

Windows == WindowsOver(KeysOf(auditLogs, aggregateBySeverity, aggregateByAction))

\* the records of db with severity (resp. action) ns and timestamp in the window
WithSeverity(db, ns, bounds) == {d \in db : d.severity = ns /\ InBounds(d.timestamp, bounds)}
WithAction(db, ns, bounds) == {d \in db : d.action = ns /\ InBounds(d.timestamp, bounds)}

Consistent(db, sev, act, bounds) ==
  /\ \A ns \in Severities :
       AggCount(sev, ns, bounds) = Cardinality(WithSeverity(db, ns, bounds))
  /\ \A ns \in Actions :
       AggCount(act, ns, bounds) = Cardinality(WithAction(db, ns, bounds))

\* the records a step removes from the primary log
Deleted == auditLogs \ auditLogs'

\* an aggregate holds an entry of document id
CountsId(agg, id) == \E e \in DOMAIN agg : e.id = id

(***************************************************************************)
(* C1  Aggregate-primary consistency: after any sequence of completed log, *)
(* logChange, logBulk and cleanup calls, with the clock advancing between  *)
(* them, for every severity and every action N and every time window W the *)
(* aggregate's count(N, W) is the number of auditLogs records with that    *)
(* severity (action) and timestamp in W.                                   *)
(***************************************************************************)
C1_AggregatePrimaryConsistency ==
  \A bounds \in Windows :
    Consistent(auditLogs, aggregateBySeverity, aggregateByAction, bounds)

\* a cleanup has deleted one of two records logged in bulk and left the other
C1_Witness ==
  /\ result.op = "cleanup"
  /\ result.ret = 1
  /\ \E d \in auditLogs : d.timestamp < CutoffTimestamp(result.args)

(***************************************************************************)
(* C2  Deletion atomicity: after a cleanup call deletes record R, get(R.id)*)
(* returns null, neither aggregate holds an entry of R, and every count    *)
(* has dropped by exactly the number of deleted records it included.       *)
(***************************************************************************)
C2_DeletionAtomicity ==
  [][result'.op = "cleanup" =>
       \A r \in Deleted :
         /\ get(auditLogs', r._id) = Null
         /\ ~CountsId(aggregateBySeverity', r._id)
         /\ ~CountsId(aggregateByAction', r._id)
         /\ \A bounds \in Windows :
              /\ AggCount(aggregateBySeverity', r.severity, bounds) =
                   AggCount(aggregateBySeverity, r.severity, bounds)
                     - Cardinality(WithSeverity(Deleted, r.severity, bounds))
              /\ AggCount(aggregateByAction', r.action, bounds) =
                   AggCount(aggregateByAction, r.action, bounds)
                     - Cardinality(WithAction(Deleted, r.action, bounds))]_vars

\* a cleanup has deleted two records at once
C2_Witness ==
  /\ result.op = "cleanup"
  /\ result.ret = 2

(***************************************************************************)
(* C3  Retention exemption: a record whose severity is listed in the       *)
(* call's preserveSeverity is not deleted by that cleanup call whatever    *)
(* its age, is not counted in the return value, and stays retrievable by   *)
(* get and counted by both aggregates.                                     *)
(***************************************************************************)
C3_RetentionExemption ==
  [][result'.op = "cleanup" =>
       /\ \A d \in auditLogs :
            Includes(Opt(result'.args, "preserveSeverity", <<>>), d.severity) =>
              /\ d \in auditLogs'
              /\ get(auditLogs', d._id) = d
              /\ AggHas(aggregateBySeverity', SeverityEntry(d))
              /\ AggHas(aggregateByAction', ActionEntry(d))
       /\ result'.ret =
            Cardinality({d \in Deleted :
              ~Includes(Opt(result'.args, "preserveSeverity", <<>>), d.severity)})]_vars

\* a cleanup that preserves "critical" has deleted a record and has left an
\* expired critical one
C3_Witness ==
  /\ result.op = "cleanup"
  /\ "preserveSeverity" \in DOMAIN result.args
  /\ result.ret > 0
  /\ \E d \in auditLogs :
       d.severity = "critical" /\ d.timestamp < CutoffTimestamp(result.args)

(***************************************************************************)
(* C4  Cleanup never deletes a record that is not expired: a call at time  *)
(* now with olderThanDays = d (default 90) deletes only records whose      *)
(* timestamp is strictly earlier than now - d days; records inserted at    *)
(* time now survive a cleanup with the default of 90 days.                 *)
(***************************************************************************)
C4_OnlyExpiredDeleted ==
  [][result'.op = "cleanup" =>
       /\ \A d \in Deleted :
            d.timestamp < now - Opt(result'.args, "olderThanDays", 90) * (24 * 60)
       /\ "olderThanDays" \notin DOMAIN result'.args =>
            \A d \in auditLogs : d.timestamp = now => d \in auditLogs']_vars

\* a cleanup has deleted a record and has left one whose timestamp is the cutoff
C4_Witness ==
  /\ result.op = "cleanup"
  /\ result.ret > 0
  /\ \E d \in auditLogs : d.timestamp = CutoffTimestamp(result.args)

\* a cleanup with the default of 90 days has deleted a record
C4_WitnessDefault ==
  /\ result.op = "cleanup"
  /\ "olderThanDays" \notin DOMAIN result.args
  /\ result.ret > 0

(***************************************************************************)
(* C5  Backlog drain, in the form "once a cleanup call returns 0, no       *)
(* record remains that is older than the call's cutoff, whose severity is  *)
(* not preserved and whose category matches".                              *)
(***************************************************************************)
Eligible(args, doc) ==
  /\ doc.timestamp < now - Opt(args, "olderThanDays", 90) * (24 * 60)
  /\ ~Includes(Opt(args, "preserveSeverity", <<>>), doc.severity)
  /\ "retentionCategory" \in DOMAIN args =>
       Field(doc, "retentionCategory") = args.retentionCategory

C5_BacklogDrained ==
  (result.op = "cleanup" /\ result.ret = 0 /\ Opt(result.args, "batchSize", 100) >= 1)
    => ~\E d \in auditLogs : Eligible(result.args, d)

(***************************************************************************)
(* Notions of the search properties.                                       *)
(***************************************************************************)
\* the record satisfies the filter set: the categories are AND-combined,
\* the values of one category OR-combined, a category that is left out or
\* empty does not constrain
SatisfiesFilters(filters, doc) ==
  /\ "fromTimestamp" \in DOMAIN filters => doc.timestamp >= filters.fromTimestamp
  /\ "toTimestamp" \in DOMAIN filters => doc.timestamp <= filters.toTimestamp
  /\ \A f \in {"severity"} \cap DOMAIN filters :
       filters[f] # <<>> => \E i \in DOMAIN filters[f] : filters[f][i] = doc.severity
  /\ \A f \in {"actions"} \cap DOMAIN filters :
       filters[f] # <<>> => \E i \in DOMAIN filters[f] : filters[f][i] = doc.action
  /\ \A f \in {"resourceTypes"} \cap DOMAIN filters :
       filters[f] # <<>> =>
         \E i \in DOMAIN filters[f] : filters[f][i] = Field(doc, "resourceType")
  /\ \A f \in {"actorIds"} \cap DOMAIN filters :
       filters[f] # <<>> => \E i \in DOMAIN filters[f] : filters[f][i] = Field(doc, "actorId")
  /\ \A f \in {"tags"} \cap DOMAIN filters :
       filters[f] # <<>> =>
         /\ "tags" \in DOMAIN doc
         /\ \E i \in DOMAIN filters[f], j \in DOMAIN doc.tags : filters[f][i] = doc.tags[j]

\* the ids of the matching records of the log, most recent first
MatchingIds(db, filters) ==
  Ids(SelectSeq(ByTimestampDesc(db), LAMBDA doc : SatisfiesFilters(filters, doc)))

(***************************************************************************)
(* C6  Cursor pagination coverage: on an unchanged log, for any filter set *)
(* and any limit >= 1, calling search without a cursor and then with each  *)
(* returned cursor until hasMore is false visits every record that matches *)
(* the filters exactly once, in time-descending order.                     *)
(***************************************************************************)
C6_PaginationCoverage ==
  (pager.phase = "done" /\ pager.unchanged /\ pager.limit >= 1)
    => pager.seen = MatchingIds(auditLogs, pager.filters)

(***************************************************************************)
(* C7  For every search call that returns a page with items, hasMore is    *)
(* true if and only if a record of the log that matches the filters lies   *)
(* strictly after the last item of the page in the time-descending order.  *)
(***************************************************************************)
C7_HasMoreExact ==
  (result.op = "search" /\ Len(result.ret.items) > 0)
    => LET last == result.ret.items[Len(result.ret.items)]
       IN result.ret.hasMore <=>
            \E doc \in auditLogs :
              SatisfiesFilters(result.args.filters, doc) /\ Before(doc, last)

(***************************************************************************)
(* Notions of the backfill properties.                                     *)
(***************************************************************************)
\* the entries of an aggregate that belong to no record of db
Stale(agg, db, EntryOf(_)) == {e \in DOMAIN agg : \A d \in db : EntryOf(d) # e}

\* the records of db that have no entry in an aggregate
Uncounted(agg, db, EntryOf(_)) == {d \in db : ~AggHas(agg, EntryOf(d))}

\* the client has driven a run to isDone = true and nothing else wrote meanwhile
RunComplete == backfill.phase = "done" /\ backfill.unchanged

\* the keys of the tables now and at the start of the run
RunWindows ==
  WindowsOver(KeysOf(auditLogs, aggregateBySeverity, aggregateByAction)
              \cup {e.key : e \in DOMAIN backfill.sevAtStart \cup DOMAIN backfill.actAtStart})

(***************************************************************************)
(* C8  Backfill completeness: from aggregates that lack the entries of     *)
(* some or all records of the primary log (and hold no others), a run of   *)
(* backfill from no cursor through the returned cursors until isDone, with *)
(* any batchSize >= 1, leaves the counts of both aggregates equal to the   *)
(* primary log for every namespace and window.                             *)
(***************************************************************************)
C8_BackfillComplete ==
  ( /\ RunComplete
    /\ Stale(backfill.sevAtStart, auditLogs, SeverityEntry) = {}
    /\ Stale(backfill.actAtStart, auditLogs, ActionEntry) = {}
    /\ \/ Uncounted(backfill.sevAtStart, auditLogs, SeverityEntry) # {}
       \/ Uncounted(backfill.actAtStart, auditLogs, ActionEntry) # {} )
    => \A bounds \in RunWindows :
         Consistent(auditLogs, aggregateBySeverity, aggregateByAction, bounds)

(***************************************************************************)
(* C9  Idempotent backfill: a complete run of backfill that directly       *)
(* follows a complete run, with no write in between, or that starts with   *)
(* every record already in both aggregates, leaves every count of both     *)
(* aggregates as it was when the run began.                                *)
(***************************************************************************)
C9_BackfillIdempotent ==
  ( /\ RunComplete
    /\ \/ backfill.runs >= 2
       \/ /\ Uncounted(backfill.sevAtStart, auditLogs, SeverityEntry) = {}
          /\ Uncounted(backfill.actAtStart, auditLogs, ActionEntry) = {} )
    => \A bounds \in RunWindows :
         /\ \A ns \in Severities :
              AggCount(aggregateBySeverity, ns, bounds) =
                AggCount(backfill.sevAtStart, ns, bounds)
         /\ \A ns \in Actions :
              AggCount(aggregateByAction, ns, bounds) =
                AggCount(backfill.actAtStart, ns, bounds)

At(key) == [lower |-> [key |-> key, inclusive |-> TRUE],
            upper |-> [key |-> key, inclusive |-> TRUE]]

\* a namespace whose counts agreed with the primary log when the run began
SeverityConsistentAtStart(ns) ==
  \A bounds \in RunWindows :
    AggCount(backfill.sevAtStart, ns, bounds) = Cardinality(WithSeverity(auditLogs, ns, bounds))

ActionConsistentAtStart(ns) ==
  \A bounds \in RunWindows :
    AggCount(backfill.actAtStart, ns, bounds) = Cardinality(WithAction(auditLogs, ns, bounds))

InWindow(db, pattern, at) ==
  {d \in db : d.action = pattern.action /\ d.timestamp >= at - pattern.windowMinutes}

\* the range of a getStats call at time at, as the contract states it
StatsFrom(args, at) ==
  IF "fromTimestamp" \in DOMAIN args THEN args.fromTimestamp ELSE at - MinutesPerDay

InStatsRange(args, at, doc) ==
  /\ doc.timestamp >= StatsFrom(args, at)
  /\ "toTimestamp" \in DOMAIN args => doc.timestamp <= args.toTimestamp

(***************************************************************************)
(* C12  detectAnomalies, called at time now, emits an entry for a pattern  *)
(* if and only if the number of records with the pattern's action and      *)
(* timestamp >= now - windowMinutes (inclusive, no upper bound) is at      *)
(* least the threshold; the entry carries that number, and the entries     *)
(* come in the order of the patterns.                                      *)
(***************************************************************************)
C12_AnomalyIffThreshold ==
  result.op = "detectAnomalies" =>
    LET patterns == result.args
        emitted == SelectSeq([i \in DOMAIN patterns |-> i],
                             LAMBDA i : Cardinality(InWindow(auditLogs, patterns[i], now))
                                          >= patterns[i].threshold)
    IN /\ Len(result.ret) = Len(emitted)
       /\ \A k \in DOMAIN emitted :
            result.ret[k] =
              [action |-> patterns[emitted[k]].action,
               count |-> Cardinality(InWindow(auditLogs, patterns[emitted[k]], now)),
               threshold |-> patterns[emitted[k]].threshold,
               windowMinutes |-> patterns[emitted[k]].windowMinutes,
               detectedAt |-> now]

\* one pattern is below its threshold and yields nothing, another is emitted
\* and counts a record whose timestamp is exactly the start of the window
C12_Witness ==
  /\ result.op = "detectAnomalies"
  /\ Len(result.ret) = 1
  /\ Len(result.args) = 2
  /\ result.ret[1].count >= 2
  /\ \E d \in auditLogs :
       /\ d.action = result.ret[1].action
       /\ d.timestamp = now - result.ret[1].windowMinutes
  /\ \E d \in auditLogs : d.action = "doc.update"

(***************************************************************************)
(* C13  getStats returns, for each severity s, bySeverity[s] equal to the  *)
(* number of records with severity s and timestamp in [fromTimestamp,      *)
(* toTimestamp] (fromTimestamp defaulting to 24 hours before now, no upper *)
(* bound when toTimestamp is omitted), and totalCount equal to the number  *)
(* of records in the range.                                                *)
(***************************************************************************)
C13_StatsBySeverity ==
  result.op = "getStats" =>
    LET inRange == {d \in auditLogs : InStatsRange(result.args, now, d)}
    IN /\ \A s \in Severities :
            result.ret.bySeverity[s] = Cardinality({d \in inRange : d.severity = s})
       /\ result.ret.totalCount = Cardinality(inRange)

(***************************************************************************)
(* C14  getStats tallies topActions and topActors over the most recent     *)
(* records, up to the sample cap, among those whose timestamp lies in      *)
(* [fromTimestamp, toTimestamp], sorted by descending count and cut to the *)
(* top ten; when at most cap records lie in the range every listed count   *)
(* is the exact number of in-range records with that action or actor.      *)
(***************************************************************************)
\* the sample the statement describes
RangeSample(args, at) ==
  Take(ByTimestampDesc({d \in auditLogs : InStatsRange(args, at, d)}), MAX_STATS_SAMPLE_SIZE)

\* a top list is the tally of the sample: every key of the sample is listed
\* once with its number of occurrences (at most ten keys being listed), and
\* the counts descend
IsTopListOf(top, keyField, keys) ==
  /\ Len(top) = Min(Cardinality(Range(keys)), TopCount)
  /\ \A i, j \in DOMAIN top : i < j =>
       top[i].count >= top[j].count /\ top[i][keyField] # top[j][keyField]
  /\ \A i \in DOMAIN top :
       top[i].count = Cardinality({k \in DOMAIN keys : keys[k] = top[i][keyField]})
  /\ \A i \in DOMAIN top : top[i].count > 0

C14_TopFromSample ==
  result.op = "getStats" =>
    LET sample == RangeSample(result.args, now)
        withActor == SelectSeq(sample, LAMBDA d : "actorId" \in DOMAIN d)
    IN /\ IsTopListOf(result.ret.topActions, "action",
                      [i \in DOMAIN sample |-> sample[i].action])
       /\ IsTopListOf(result.ret.topActors, "actorId",
                      [i \in DOMAIN withActor |-> withActor[i].actorId])

(***************************************************************************)
(* C15  Every item search returns satisfies all supplied filters: the      *)
(* categories are AND-combined, the values of a category OR-combined, tags *)
(* matches when the record has one of the listed tags, the timestamp lies  *)
(* in [fromTimestamp, toTimestamp]; a category that is omitted or empty    *)
(* excludes nothing.                                                       *)
(***************************************************************************)
C15_ItemsSatisfyFilters ==
  result.op = "search" =>
    \A i \in DOMAIN result.ret.items :
      SatisfiesFilters(result.args.filters, result.ret.items[i])

(***************************************************************************)
(* C17  search called with a cursor that identifies no record of the       *)
(* result set (an unknown id, the id of a deleted record, of a record the  *)
(* filters of the call reject) returns what the same call without a cursor *)
(* returns: the first page.                                                *)
(***************************************************************************)
C17_InvalidCursorFirstPage ==
  (/\ result.op = "search"
   /\ "cursor" \in DOMAIN result.args.pagination
   /\ \A d \in auditLogs :
        PassesFilters(result.args.filters, d) => d._id # result.args.pagination.cursor)
    => result.ret = SearchResult(auditLogs, result.args.filters,
                                 [limit |-> result.args.pagination.limit])

\* the cursor is the id of a record that cleanup has deleted, and the first
\* page has an item
C17_Witness ==
  /\ result.op = "search"
  /\ "cursor" \in DOMAIN result.args.pagination
  /\ result.args.pagination.cursor < nextId
  /\ \A d \in auditLogs \cup config : d._id # result.args.pagination.cursor
  /\ Len(result.ret.items) = 1

(***************************************************************************)
(* Notions of the properties of the queries by dimension.                  *)
(***************************************************************************)
\* ret lists, most recent first and each once, the Min(limit, m) most
\* recent of the m records of matching
IsMostRecentOf(ret, matching, limit) ==
  /\ Len(ret) = Min(limit, Cardinality(matching))
  /\ \A i \in DOMAIN ret : ret[i] \in matching
  /\ \A i, j \in DOMAIN ret : i < j =>
       ret[i].timestamp >= ret[j].timestamp /\ ret[i] # ret[j]
  /\ \A d \in matching \ Range(ret) : \A i \in DOMAIN ret : d.timestamp <= ret[i].timestamp

FromOk(args, doc) == "fromTimestamp" \in DOMAIN args => doc.timestamp >= args.fromTimestamp

LimitOf(args) == IF "limit" \in DOMAIN args THEN args.limit ELSE DefaultQueryLimit

(***************************************************************************)
(* C18  queryByResource, queryByAction and queryBySeverity each return, in *)
(* time-descending order, exactly the min(limit, m) most recent of the m   *)
(* records that match the requested dimension value(s) and have timestamp  *)
(* >= fromTimestamp (limit defaulting to 50); a record lacking the queried *)
(* optional field is never returned, and the result is empty when nothing  *)
(* matches.                                                                *)
(***************************************************************************)
C18_QueryByDimension ==
  /\ result.op = "queryByResource" =>
       IsMostRecentOf(result.ret,
                      {d \in auditLogs : /\ "resourceType" \in DOMAIN d
                                         /\ "resourceId" \in DOMAIN d
                                         /\ d.resourceType = result.args.resourceType
                                         /\ d.resourceId = result.args.resourceId
                                         /\ FromOk(result.args, d)},
                      LimitOf(result.args))
  /\ result.op = "queryByAction" =>
       IsMostRecentOf(result.ret,
                      {d \in auditLogs : d.action = result.args.action
                                         /\ FromOk(result.args, d)},
                      LimitOf(result.args))
  /\ result.op = "queryBySeverity" =>
       IsMostRecentOf(result.ret,
                      {d \in auditLogs : Includes(result.args.severity, d.severity)
                                         /\ FromOk(result.args, d)},
                      LimitOf(result.args))

(***************************************************************************)
(* C19  queryByActor called with an actions list returns, in               *)
(* time-descending order, the min(limit, m) most recent of the m records   *)
(* that have the given actorId, an action of the list and (when given)     *)
(* timestamp >= fromTimestamp.                                             *)
(***************************************************************************)
C19_QueryByActorActions ==
  (/\ result.op = "queryByActor"
   /\ "actions" \in DOMAIN result.args
   /\ result.args.actions # <<>>)
    => IsMostRecentOf(result.ret,
                      {d \in auditLogs : /\ "actorId" \in DOMAIN d
                                         /\ d.actorId = result.args.actorId
                                         /\ Includes(result.args.actions, d.action)
                                         /\ FromOk(result.args, d)},
                      LimitOf(result.args))

(***************************************************************************)
(* C20  get returns the stored record (the fields that were supplied,      *)
(* unchanged) for any id that log, logChange or logBulk returned and whose *)
(* record has not been deleted, and returns null, without raising, for an  *)
(* unknown id, the id of a deleted record and the id of the configuration  *)
(* record.                                                                 *)
(***************************************************************************)
C20_GetTotal ==
  /\ result.op = "get" =>
       IF \E d \in auditLogs : d._id = result.args.id
       THEN result.ret \in auditLogs /\ result.ret._id = result.args.id
       ELSE result.ret = Null
  /\ result.op \in {"log", "logChange"} =>
       LET stored == get(auditLogs \cup config, result.ret)
       IN /\ stored # Null
          /\ \A f \in DOMAIN result.args \ {"generateDiff"} : stored[f] = result.args[f]
  /\ result.op = "logBulk" =>
       \A i \in DOMAIN result.args :
         LET stored == get(auditLogs \cup config, result.ret[i])
         IN /\ stored # Null
            /\ \A f \in DOMAIN result.args[i] : stored[f] = result.args[i][f]

\* get is called with the id of the configuration record while the log
\* holds a record and the id of a deleted record is free
C20_Witness ==
  /\ result.op = "get"
  /\ \E c \in config : c._id = result.args.id
  /\ result.ret = Null
  /\ auditLogs # {}
  /\ \E id \in 1..(nextId - 1) : \A d \in auditLogs \cup config : d._id # id

(***************************************************************************)
(* C11  Atomic writes under concurrency: under any interleaving of         *)
(* concurrently issued log, logChange, logBulk, cleanup and backfill calls *)
(* with reads, each write takes effect as one atomic step: the tables a    *)
(* read observes never hold a record whose entry is missing from either    *)
(* aggregate, nor an aggregate entry whose record is absent from the log.  *)
(***************************************************************************)
\* every entry of the aggregate is the entry of a record of the log, once
EntriesOfRecords(agg, db, EntryOf(_)) ==
  \A e \in DOMAIN agg : agg[e] = 1 /\ \E d \in db : EntryOf(d) = e

C11_NoPartialWriteObserved ==
  /\ Uncounted(aggregateBySeverity, auditLogs, SeverityEntry) = {}
  /\ Uncounted(aggregateByAction, auditLogs, ActionEntry) = {}
  /\ EntriesOfRecords(aggregateBySeverity, auditLogs, SeverityEntry)
  /\ EntriesOfRecords(aggregateByAction, auditLogs, ActionEntry)
  /\ result.op = "getStats" => result.ret.totalCount = Cardinality(auditLogs)

\* a read returns while one mutation has inserted a record in its own view
\* and not yet its aggregate entries, and another has handled one entry of
\* a record it deletes and not yet the record
C11_Witness ==
  /\ result.op = "getStats"
  /\ auditLogs # {}
  /\ \E w \in DOMAIN inflight :
       /\ inflight[w].op \in {"log", "logChange", "logBulk"}
       /\ inflight[w].tables.db # inflight[w].base.db
       /\ Uncounted(inflight[w].tables.act, inflight[w].tables.db, ActionEntry) # {}
  /\ \E w \in DOMAIN inflight :
       /\ inflight[w].op = "cleanup"
       /\ Uncounted(inflight[w].tables.sev, inflight[w].tables.db, SeverityEntry) # {}

(***************************************************************************)
(* C21  logBulk of n events returns n pairwise distinct ids in the order   *)
(* of the input events, the i-th id identifying a record that holds the    *)
(* i-th event; all n records carry the same timestamp, and each of them is *)
(* kept in the log and counted by both aggregates: records with equal      *)
(* timestamps, even of equal events, do not collapse.                      *)
(***************************************************************************)
\* the window that holds the one key
Exactly(key) ==
  [lower |-> [key |-> key, inclusive |-> TRUE], upper |-> [key |-> key, inclusive |-> TRUE]]

C21_BulkIdsInOrder ==
  result.op = "logBulk" =>
    LET events == result.args
        ids == result.ret
    IN /\ Len(ids) = Len(events)
       /\ \A i, j \in DOMAIN ids : i # j => ids[i] # ids[j]
       /\ \A i \in DOMAIN ids :
            /\ Cardinality({d \in auditLogs : d._id = ids[i]}) = 1
            /\ LET stored == DbGet(auditLogs, ids[i])
               IN /\ DOMAIN stored = DOMAIN events[i] \cup {"_id", "timestamp"}
                  /\ \A f \in DOMAIN events[i] : stored[f] = events[i][f]
                  /\ stored.timestamp = now
                  /\ AggHas(aggregateBySeverity, SeverityEntry(stored))
                  /\ AggHas(aggregateByAction, ActionEntry(stored))
       /\ \A ns \in Severities :
            AggCount(aggregateBySeverity, ns, Exactly(now))
              = Cardinality({d \in auditLogs : d.severity = ns /\ d.timestamp = now})
       /\ \A ns \in Actions :
            AggCount(aggregateByAction, ns, Exactly(now))
              = Cardinality({d \in auditLogs : d.action = ns /\ d.timestamp = now})

\* a batch of two equal events has been logged: two records that differ in
\* their ids only, both counted
C21_Witness ==
  /\ result.op = "logBulk"
  /\ Len(result.args) = 2
  /\ result.args[1] = result.args[2]
  /\ \A i \in DOMAIN result.ret : \E d \in auditLogs : d._id = result.ret[i]
  /\ AggCount(aggregateByAction, result.args[1].action, Exactly(now)) = 2

(***************************************************************************)
(* C22  logBulk logs its events in a single transaction: a step stores     *)
(* either every event of a batch, in the primary log and in both           *)
(* aggregates, and that is the step at which the call returns its ids, or  *)
(* it stores none; a call that fails stores none; no state holds a strict  *)
(* non-empty prefix of a batch.                                            *)
(***************************************************************************)
\* the ids of the batch of the running logBulk call txn
BatchIds(txn) == {txn.firstId + i - 1 : i \in DOMAIN txn.args.events}

WellFormedEvent(args) ==
  /\ "action" \in DOMAIN args
  /\ "severity" \in DOMAIN args
  /\ args.severity \in Severities

C23_InvalidLogRejected ==
  [][/\ (result'.op = "log" /\ ~WellFormedEvent(result'.args)) =>
          /\ UNCHANGED <<auditLogs, aggregateBySeverity, aggregateByAction, nextId>>
          /\ result'.ret = Failure
     /\ \A d \in auditLogs' : WellFormedEvent(d)
     /\ \A e \in DOMAIN aggregateBySeverity' : e.ns \in Severities
    ]_vars

\* a call without severity has been rejected while the log holds a record
C23_Witness ==
  /\ result.op = "log"
  /\ "severity" \notin DOMAIN result.args
  /\ "action" \in DOMAIN result.args
  /\ result.ret = Failure
  /\ auditLogs # {}

(***************************************************************************)
(* C24  Once stored, no operation changes any field of a record, its       *)
(* timestamp included: a record of the log is either still there after a   *)
(* step, field for field, or it is gone as a whole, and then the step is a *)
(* cleanup; and the id of a record that a step stores has never been       *)
(* assigned before, whether or not the record that had it was deleted.     *)
(***************************************************************************)
C24_RecordsImmutable ==
  [][/\ \A d \in auditLogs :
          \/ d \in auditLogs'
          \/ /\ \A e \in auditLogs' : e._id # d._id
             /\ result'.op = "cleanup"
     /\ \A d \in auditLogs' \ auditLogs : d._id >= nextId /\ d._id < nextId'
     /\ nextId' >= nextId
     /\ \A d \in auditLogs \cup config : d._id < nextId
     /\ (result'.op \in {"log", "logChange"} /\ nextId' > nextId) =>
          \E d \in auditLogs' \ auditLogs : d._id = result'.ret
    ]_vars

\* a record has been stored after cleanup deleted an earlier one: the id of
\* the deleted record is free and the new record has another
C24_Witness ==
  /\ result.op \in {"log", "logChange"}
  /\ \E d \in auditLogs : d._id = result.ret
  /\ \E id \in 1..(nextId - 1) : \A d \in auditLogs \cup config : d._id # id

(***************************************************************************)
(* C25  Read operations are pure: a step that is a call of get, search,    *)
(* queryByResource, queryByActor, queryBySeverity, queryByAction,          *)
(* watchCritical, getStats, detectAnomalies, generateReport or getConfig   *)
(* leaves the primary log, both aggregates and the configuration record    *)
(* unchanged.                                                              *)
(***************************************************************************)
ReadOps ==
  {"get", "search", "queryByResource", "queryByActor", "queryBySeverity", "queryByAction",
   "watchCritical", "getStats", "detectAnomalies", "generateReport", "getConfig"}

C25_ReadsArePure ==
  [][result'.op \in ReadOps =>
       UNCHANGED <<auditLogs, aggregateBySeverity, aggregateByAction, config, nextId>>
    ]_vars

\* a report of a log of two records has been generated and cut at the cap,
\* while a configuration exists
C25_Witness ==
  /\ result.op = "generateReport"
  /\ result.ret.truncated
  /\ result.ret.recordCount >= 1
  /\ Cardinality(auditLogs) = 2
  /\ config # {}

(***************************************************************************)
(* C26  updateConfig on an existing configuration changes exactly the      *)
(* fields supplied in the call and leaves every other field unchanged;     *)
(* when no configuration exists it creates one in which every unsupplied   *)
(* field takes its default: defaultRetentionDays 90, criticalRetentionDays *)
(* 365, piiFieldsToRedact [], samplingEnabled false, samplingRate 1.0.     *)
(***************************************************************************)
ConfigDefaults ==
  [defaultRetentionDays |-> 90, criticalRetentionDays |-> 365, piiFieldsToRedact |-> <<>>,
   samplingEnabled |-> FALSE, samplingRate |-> 1]

\* the step is the return of an updateConfig call
UpdateConfigReturns ==
  /\ result'.op = "updateConfig"
  /\ \E w \in DOMAIN inflight : inflight[w].op = "updateConfig" /\ inflight'[w].op = "returned"

C26_UpdateConfigPatches ==
  [][UpdateConfigReturns =>
       LET args == result'.args
       IN IF config = {}
          THEN \E created \in config' :
                 /\ config' = {created}
                 /\ DOMAIN created = {"_id"} \cup DOMAIN ConfigDefaults \cup DOMAIN args
                 /\ \A f \in DOMAIN args : created[f] = args[f]
                 /\ \A f \in DOMAIN ConfigDefaults \ DOMAIN args :
                      created[f] = ConfigDefaults[f]
          ELSE \E old \in config, new \in config' :
                 /\ config' = (config \ {old}) \cup {new}
                 /\ new._id = old._id
                 /\ DOMAIN new = DOMAIN old \cup DOMAIN args
                 /\ \A f \in DOMAIN args : new[f] = args[f]
                 /\ \A f \in DOMAIN old \ DOMAIN args : new[f] = old[f]
    ]_vars

\* an update that supplies one field has returned on a configuration whose
\* sampling fields an earlier update had set: they are kept
C26_Witness ==
  /\ result.op = "updateConfig"
  /\ result.args = [defaultRetentionDays |-> 30]
  /\ \E c \in config : /\ c.samplingEnabled
                       /\ c.samplingRate = 0
                       /\ c.defaultRetentionDays = 30
                       /\ c.criticalRetentionDays = 365

(***************************************************************************)
(* C27  Configuration singleton: in every reachable state at most one      *)
(* configuration record exists, and once an updateConfig call has returned *)
(* exactly one exists; repeated or concurrently issued updateConfig calls  *)
(* never create a second one, and each returns the id of that record.      *)
(***************************************************************************)
C27_ConfigSingleton ==
  /\ Cardinality(config) <= 1
  /\ (\E w \in DOMAIN inflight : inflight[w].op = "returned") => Cardinality(config) = 1
  /\ result.op = "updateConfig" => \A c \in config : c._id = result.ret

\* three calls were issued at the same time, on the empty table; all have
\* returned, and one record exists
C27_Witness ==
  /\ DOMAIN inflight = Writers
  /\ \A w \in Writers : inflight[w].op = "returned"
  /\ Cardinality(config) = 1
  /\ result.op = "updateConfig"

(***************************************************************************)
(* C28  Diff of a value with itself: for every structured (key-value)      *)
(* value X, generateDiff(X, X) produces no removal, addition or change     *)
(* line: it is the empty text.                                             *)
(***************************************************************************)
C28_DiffOfSelfIsEmpty ==
  (/\ result.op = "generateDiff"
   /\ TypeOf(result.args.before) = "object"
   /\ result.args.after = result.args.before)
    => result.ret = <<>>

\* the diff of an object of two members with itself has been computed
C28_Witness ==
  /\ result.op = "generateDiff"
  /\ TypeOf(result.args.before) = "object"
  /\ Len(result.args.before.kv) = 2
  /\ result.args.after = result.args.before
  /\ result.ret = <<>>

(***************************************************************************)
(* C29  For structured before and after, generateDiff emits exactly one    *)
(* removal line for every key that before has and after has not, exactly   *)
(* one addition line for every key that after has and before has not,      *)
(* exactly one change line for every key of both whose values differ in    *)
(* their textual form, and no other line: a key of both with equal values  *)
(* has no line.                                                            *)
(***************************************************************************)
\* the lines of the diff that name the key
LinesOf(diff, key) == SelectSeq(diff, LAMBDA line : line.key = key)

\* the line the key is to have: its mark, or "" for none
LineDue(before, after, key) ==
  IF OwnKey(before, key) /\ ~OwnKey(after, key) THEN "-"
  ELSE IF ~OwnKey(before, key) /\ OwnKey(after, key) THEN "+"
  ELSE IF /\ OwnKey(before, key)
          /\ OwnKey(after, key)
          /\ Member(before, key) # Member(after, key) THEN "~"
  ELSE ""

C29_DiffLinesPerKey ==
  (/\ result.op = "generateDiff"
   /\ TypeOf(result.args.before) = "object"
   /\ TypeOf(result.args.after) = "object")
    => /\ \A i \in DOMAIN result.ret : result.ret[i].key \in DiffKeys
       /\ \A key \in DiffKeys :
            LET lines == LinesOf(result.ret, key)
                due == LineDue(result.args.before, result.args.after, key)
            IN IF due = "" THEN lines = <<>>
               ELSE Len(lines) = 1 /\ lines[1].op = due

(***************************************************************************)
(* C30  logChange called with generateDiff = true and both before and      *)
(* after supplied stores a record whose before and after are the supplied  *)
(* snapshots and whose diff is generateDiff(before, after); when           *)
(* generateDiff is false or absent, or either snapshot is missing, the     *)
(* stored record has no diff.                                              *)
(***************************************************************************)
C30_LogChangeDiff ==
  result.op = "logChange" =>
    LET args == result.args
        stored == DbGet(auditLogs, result.ret)
    IN /\ stored # Null
       /\ \A f \in {"before", "after"} :
            IF f \in DOMAIN args THEN f \in DOMAIN stored /\ stored[f] = args[f]
            ELSE f \notin DOMAIN stored
       /\ IF /\ Opt(args, "generateDiff", FALSE)
             /\ "before" \in DOMAIN args
             /\ "after" \in DOMAIN args
          THEN /\ "diff" \in DOMAIN stored
               /\ stored.diff = generateDiff(args.before, args.after)
          ELSE "diff" \notin DOMAIN stored

\* the objects a report's data holds, one for each record it includes
ReportRows(ret, args) ==
  IF args.format = "csv" THEN Slice(ret.data, 1, Len(ret.data))
  ELSE IF /\ "groupBy" \in DOMAIN args
          /\ Includes(Opt(args, "includeFields", DefaultIncludeFields), args.groupBy)
       THEN Flatten([k \in DOMAIN ret.data |-> ret.data[k][2]])
       ELSE ret.data

\* the limit of a report, and the records of the log in its range
ReportLimit(args) ==
  IF "maxRecords" \in DOMAIN args /\ args.maxRecords < MAX_REPORT_RECORDS
  THEN args.maxRecords ELSE MAX_REPORT_RECORDS

InReportRange(db, args) ==
  {d \in db : args.startDate <= d.timestamp /\ d.timestamp <= args.endDate}

(***************************************************************************)
(* C31  generateReport includes at most L = min(maxRecords, 10000) records *)
(* (maxRecords defaulting to 10000; the cap is MAX_REPORT_RECORDS here),   *)
(* recordCount equals the number included, and truncated is true if and    *)
(* only if the number of records with timestamp in [startDate, endDate]    *)
(* exceeds L; exceeding the bound is signalled by the flag and never       *)
(* raised as an error.                                                     *)
(***************************************************************************)
C31_ReportBounded ==
  result.op = "generateReport" =>
    LET args == result.args
        ret == result.ret
        inRange == InReportRange(auditLogs, args)
    IN /\ ret # Failure
       /\ Len(ReportRows(ret, args)) <= ReportLimit(args)
       /\ ret.recordCount = Len(ReportRows(ret, args))
       /\ ret.recordCount = Min(ReportLimit(args), Cardinality(inRange))
       /\ ret.truncated <=> Cardinality(inRange) > ReportLimit(args)

\* a report was cut at a limit of at least one record: more records are in
\* its range than it includes
C31_Witness ==
  /\ result.op = "generateReport"
  /\ result.ret.truncated
  /\ result.ret.recordCount >= 1
  /\ Cardinality(InReportRange(auditLogs, result.args)) > result.ret.recordCount

\* the entries of an aggregate that belong to none of the documents
EntriesBeside(agg, docs) ==
  {<<e, agg[e]>> : e \in {x \in DOMAIN agg : \A d \in docs : x.id # d._id}}

(***************************************************************************)
(* C32  cleanup returns exactly the number of records it removed from the  *)
(* primary log in that call, that number is at most batchSize (default     *)
(* 100), and every record it did not delete is left unchanged in the       *)
(* primary log and in both aggregates.                                     *)
(***************************************************************************)
C32_CleanupCountsDeleted ==
  [][result'.op = "cleanup" =>
       /\ result'.ret = Cardinality(Deleted)
       /\ result'.ret <= Opt(result'.args, "batchSize", DefaultBatchSize)
       /\ auditLogs' = auditLogs \ Deleted
       /\ EntriesBeside(aggregateBySeverity', Deleted) =
            EntriesBeside(aggregateBySeverity, Deleted)
       /\ EntriesBeside(aggregateByAction', Deleted) =
            EntriesBeside(aggregateByAction, Deleted)]_vars

\* a cleanup of batch size 1 has deleted one record and left another that
\* is as old and that it would not skip
C32_Witness ==
  /\ result.op = "cleanup"
  /\ "batchSize" \in DOMAIN result.args
  /\ result.ret = result.args.batchSize
  /\ \E d \in auditLogs :
       /\ d.timestamp < CutoffTimestamp(result.args)
       /\ ~CleanupSkips(result.args, d)
       /\ CountsId(aggregateBySeverity, d._id)
       /\ CountsId(aggregateByAction, d._id)

(***************************************************************************)
(* C33  When cleanup is given a retentionCategory, it deletes only records *)
(* whose retentionCategory equals that value; records with a different     *)
(* category or with no category are never deleted by that call, however    *)
(* old they are.                                                           *)
(***************************************************************************)
C33_OnlyCategoryDeleted ==
  [][(result'.op = "cleanup" /\ "retentionCategory" \in DOMAIN result'.args) =>
       \A r \in Deleted :
         /\ "retentionCategory" \in DOMAIN r
         /\ r.retentionCategory = result'.args.retentionCategory]_vars

\* the records a cleanup call is due to delete: those of its batch that it
\* does not skip
DueForCleanup(db, args, at) ==
  {d \in Range(OldLogs(db, at - Opt(args, "olderThanDays", DefaultOlderThanDays)
                                  * MinutesPerDay,
                       Opt(args, "batchSize", DefaultBatchSize))) :
     ~CleanupSkips(args, d)}

FirstCreated(db, n) ==
  {d \in db : Cardinality({x \in db : x._id <= d._id}) <= n}

ComesAfter(d, c) ==
  \/ d.timestamp > c.timestamp
  \/ d.timestamp = c.timestamp /\ d._id > c._id

\* the records a call has before it: the log from the start, or what comes
\* after the cursor's record
AheadOf(db, args) ==
  IF "cursor" \in DOMAIN args /\ args.cursor # NoId
  THEN {d \in db : \E c \in db : c._id = args.cursor /\ ComesAfter(d, c)}
  ELSE db

(***************************************************************************)
(* C36  On an unchanged log and for any batchSize >= 1, the documented     *)
(* driver loop (call backfill with the previously returned cursor until    *)
(* isDone is true) terminates after finitely many calls: a call that is    *)
(* not the last returns the cursor of a record further on in the log.      *)
(* Each call processes at most batchSize records and returns isDone =      *)
(* false exactly when records remain beyond the processed batch.           *)
(***************************************************************************)
C36_DriverTerminates ==
  [][(result'.op = "runBackfill" /\ backfill'.phase # "idle" /\ backfill'.unchanged) =>
       LET args == result'.args
           ret == result'.ret
           ahead == AheadOf(auditLogs, args)
       IN /\ ret.processed <= Opt(args, "batchSize", DefaultBatchSize)
          /\ ret.isDone = FALSE <=> Cardinality(ahead) > ret.processed
          /\ ret.isDone = FALSE =>
               /\ ret.processed >= 1
               /\ \E d \in ahead : d._id = ret.cursor]_vars

(***************************************************************************)
(* C37  When records are inserted by log or deleted by cleanup between     *)
(* successive search page requests, a client that follows the returned     *)
(* cursors with the same filters and limit never receives the same record  *)
(* on two different pages.                                                 *)
(***************************************************************************)
C37_NoRecordOnTwoPages ==
  pager.phase # "idle" =>
    \A i, j \in DOMAIN pager.seen : pager.seen[i] = pager.seen[j] => i = j

(***************************************************************************)
(* C38  On an unchanged log, whenever search returns hasMore = true,       *)
(* calling search again with the returned cursor and the same filters and  *)
(* limit returns at least one item, and none of its items appeared on the  *)
(* previous page.                                                          *)
(***************************************************************************)
C38_NextPageAdvances ==
  [][(/\ result.op = "search"
      /\ result.ret.hasMore
      /\ result'.op = "search"
      /\ auditLogs' = auditLogs
      /\ result'.args.filters = result.args.filters
      /\ "cursor" \in DOMAIN result'.args.pagination
      /\ result'.args.pagination.cursor = result.ret.cursor
      /\ result'.args.pagination.limit = result.args.pagination.limit) =>
       /\ Len(result'.ret.items) >= 1
       /\ \A i \in DOMAIN result'.ret.items, j \in DOMAIN result.ret.items :
            result'.ret.items[i] # result.ret.items[j]]_vars

\* the client has followed the cursor of a page that reported more, on a
\* log nobody wrote to meanwhile, and has been given a further page of two
C38_Witness ==
  /\ result.op = "search"
  /\ "cursor" \in DOMAIN result.args.pagination
  /\ pager.phase # "idle"
  /\ pager.unchanged
  /\ Len(pager.seen) > Len(result.ret.items)
  /\ Len(result.ret.items) = 2

(***************************************************************************)
(* C39  For any log produced by log, logChange, logBulk and cleanup calls  *)
(* and any pattern list, the aggregate-based detectAnomalies returns the   *)
(* same anomalies (same actions, counts and order) as the earlier          *)
(* scan-based implementation that collects the by_action_timestamp index   *)
(* entries with timestamp >= windowStart.                                  *)
(***************************************************************************)
C39_AnomaliesAsByScan ==
  result.op = "detectAnomalies" =>
    result.ret = legacyAnomalies(auditLogs, result.args, now)

\* both implementations emit one of two patterns, counting a change record
\* that lies at the start of the window, after a cleanup has deleted a record
C39_Witness ==
  /\ result.op = "detectAnomalies"
  /\ Len(result.args) = 2
  /\ Len(result.ret) = 1
  /\ result.ret[1].count >= 1
  /\ \E d \in auditLogs :
       /\ "diff" \in DOMAIN d
       /\ d.action = result.ret[1].action
       /\ d.timestamp = now - result.ret[1].windowMinutes
  /\ Cardinality(auditLogs) < nextId - 1

(***************************************************************************)
(* C40  With samplingEnabled = true, an AuditLog.log call whose random     *)
(* draw exceeds samplingRate stores no record and returns the empty        *)
(* string, for every samplingRate in [0, 1] including 0; with sampling     *)
(* disabled every log call stores exactly one record.                      *)
(***************************************************************************)
C40_SamplingDrops ==
  [][result'.op = "AuditLog.log" =>
       LET options == result'.options
           enabled == Opt(options, "samplingEnabled", FALSE)
       IN /\ (/\ enabled
              /\ "samplingRate" \in DOMAIN options
              /\ result'.random > options.samplingRate) =>
               /\ UNCHANGED <<auditLogs, aggregateBySeverity, aggregateByAction>>
               /\ result'.ret = ""
          /\ ~enabled =>
               /\ auditLogs \subseteq auditLogs'
               /\ Cardinality(auditLogs') = Cardinality(auditLogs) + 1]_vars

====
